---- MODULE Spec2Model ----
(***************************************************************************)
(* Model of the opnet-ordinals-plugin: the bridge claim store and service  *)
(* (bridge-database.ts, bridge.ts), the collection registry                *)
(* (collection.ts), the indexer loop (plugin.ts), the inscription store    *)
(* (database.ts) and the attestation worker (attestation-worker.ts).       *)
(*                                                                         *)
(* The burn_claims table is a sequence of rows kept in created_at order    *)
(* (rows are appended by INSERT and Date.now() does not decrease), which   *)
(* is the order ORDER BY created_at ASC returns.  updated_at is not        *)
(* modelled: nothing reads it.                                             *)
(***************************************************************************)
EXTENDS Integers, Sequences, FiniteSets, TLC

\* ---------------------------------------------------------------------
\* Bounds of the model
\* ---------------------------------------------------------------------
\* Burn heights and sweep heights offered to the public API are 0..MaxApiHeight.
MaxApiHeight == 2
\* The block source serves heights 0..NumBlocks-1.
NumBlocks == 3
\* Store errors, chain reorganisations and restarts in one behaviour, together.
MaxEvents == 2
\* Longest claim queue of SpecSweep.
MaxQueue == 101
\* Longest queue of confirmed claims of SpecCap.
MaxBatchQueue == 22

\* ---------------------------------------------------------------------
\* Program constants and configuration
\* ---------------------------------------------------------------------
\* getByStatus(status, limit = 100)
DEFAULT_LIMIT == 100
\* attestation-worker.ts
MAX_ATTESTATIONS_PER_CYCLE == 20
\* BridgeService constructor argument requiredConfirmations (BRIDGE_CONFIRMATIONS)
requiredConfirmations == 1
\* BridgeService constructor argument minFeeSats of the service under test
minFeeSats == 2

\* null / undefined of a string-valued field
Null == "null"
Undefined == "undefined"
\* null / undefined of a number-valued result, and a thrown exception
NullRet == -1
Thrown == -2
\* burn.feePaid left out
NoFee == -1
\* "no call throws" in the loops below
NoFail == -1

\* config.startHeight (START_HEIGHT)
StartHeight == 0

\* Block hashes: the block at height h of branch b.  Main is the first
\* chain served; branch b >= 0 leaves it at height b.
Main == -1
EmptyHash == [h |-> -2, b |-> Main]
ZeroHash == [h |-> -1, b |-> Main]

Statuses == {"detected", "underpaid", "confirmed", "attested", "failed"}

BurnAddress == "burn"

\* The collection file: an array of item ids; "" is an item without id.
CollectionItems == <<"x1", "", "x2", "x1">>
\* An inscription id that is not in the collection file.
Stranger == "x3"
InscriptionIds == {"x1", "x2", Stranger}
AttestTxids == {"t1", "t2"}

\* ---------------------------------------------------------------------
\* CollectionRegistry
\* ---------------------------------------------------------------------
\* loadItems: one pass over the array; an item with an empty id or an id
\* already in the map is skipped, token id = array index (0-based).
RECURSIVE LoadLoop(_, _, _)
LoadLoop(items, i, byId) ==
    IF i > Len(items) THEN byId
    ELSE LET id == items[i] IN
         IF id = "" \/ id \in DOMAIN byId
         THEN LoadLoop(items, i + 1, byId)
         ELSE LoadLoop(items, i + 1, byId @@ (id :> (i - 1)))

loadItems(items) == LoadLoop(items, 1, <<>>)

itemsByInscriptionId == loadItems(CollectionItems)

hasInscription(id) == id \in DOMAIN itemsByInscriptionId

getByInscriptionId(id) ==
    IF id \in DOMAIN itemsByInscriptionId THEN itemsByInscriptionId[id] ELSE NullRet

\* The two maps of a registry: itemsByInscriptionId and itemsByTokenId hold
\* the same indexed item [id, tokenId] under its id and under its token id.
NoItems == [itemsByInscriptionId |-> <<>>, itemsByTokenId |-> <<>>]

RECURSIVE LoadBoth(_, _, _)
LoadBoth(items, i, maps) ==
    IF i > Len(items) THEN maps
    ELSE LET id == items[i]
             indexed == [id |-> id, tokenId |-> i - 1]
         IN IF id = "" \/ id \in DOMAIN maps.itemsByInscriptionId
            THEN LoadBoth(items, i + 1, maps)
            ELSE LoadBoth(items, i + 1,
                     [itemsByInscriptionId |-> maps.itemsByInscriptionId @@ (id :> indexed),
                      itemsByTokenId |-> maps.itemsByTokenId @@ ((i - 1) :> indexed)])

\* loadItems without the two clear() calls.
loadItemsOnto(maps, items) == LoadBoth(items, 1, maps)

\* loadItems on a registry that holds maps: both maps are cleared first.
loadItemsInto(maps, items) == LoadBoth(items, 1, NoItems)

\* The registry after initializeBridge loaded the collection file.
Loaded == loadItemsInto(NoItems, CollectionItems)

getByTokenId(maps, tokenId) ==
    IF tokenId \in DOMAIN maps.itemsByTokenId THEN <<maps.itemsByTokenId[tokenId]>> ELSE <<>>

registryGetByInscriptionId(maps, id) ==
    IF id \in DOMAIN maps.itemsByInscriptionId THEN <<maps.itemsByInscriptionId[id]>> ELSE <<>>

\* Most requests POST /bridge/retry-failed in flight at one time.
MaxRequests == 2

Requests == 1 .. MaxRequests

\* A call of retryFailedClaims: before its read, or in its loop over the rows
\* it read, with its counter.
IdleRetry == [pc |-> "idle", failed |-> <<>>, retried |-> 0]

NoRetry == [r \in Requests |-> IdleRetry]

\* An invocation of processConfirmedClaims beside the one of wPc and wBatch:
\* its position, the rest of its batch, its counter, and per inscription id
\* the broadcasts of this invocation that returned a receipt.
NoSecond == [pc |-> "idle", batch |-> <<>>, attested |-> 0,
             sent |-> [id \in 1 .. MaxBatchQueue |-> 0]]

\* ---------------------------------------------------------------------
\* State
\* ---------------------------------------------------------------------
VARIABLES
    claims,             \* burn_claims rows, in created_at order
    op,                 \* the last operation, its arguments, outcome and return value
    inscriptions,       \* rows of the inscriptions table
    currentHeight,      \* OrdinalsIndexerPlugin.currentHeight
    lastBlockHash,      \* OrdinalsIndexerPlugin.lastBlockHash
    inscriptionCounter, \* OrdinalsIndexerPlugin.inscriptionCounter
    fork,               \* the branch the block source currently serves
    eventsLeft,         \* store errors, chain reorganisations and restarts still to come
    wPc,                \* position of the attestation worker: "idle" or "loop"
    wBatch,             \* claims of the running cycle not yet handled
    wAttested,          \* the running cycle's counter of attested claims
    pendingUtxos,       \* AttestationWorker.pendingUtxos
    wCycle,             \* inscription ids of the running cycle's batch, in order
    broadcasts,         \* per inscription id, the broadcasts that returned a receipt
    isRunning,          \* OrdinalsIndexerPlugin.isRunning
    poolEnded,          \* end() was called on the pool of InscriptionDatabase
    ixPc,               \* position of the indexer loop: "idle", or "block" while
                        \* processNextBlock awaits the block it asked for
    nft,                \* storage of the OrdinalsBridgeNFT contract
    mempool,            \* attestBurn transactions broadcast and not yet executed
    mintLog,            \* the attestBurn calls the contract accepted, in order
    witness,            \* the witness stack handed to OrdinalsParser.parseInscription
    registry,           \* the two maps of CollectionRegistry
    retrying,           \* the calls of retryFailedClaims in flight
    second              \* a second invocation of processConfirmedClaims on the same worker

bridgeVars == <<claims>>
indexerVars == <<inscriptions, currentHeight, lastBlockHash, inscriptionCounter>>
envVars == <<fork, eventsLeft>>
workerVars == <<wPc, wBatch, wAttested, pendingUtxos, wCycle, broadcasts>>
lifeVars == <<isRunning, poolEnded, ixPc>>
contractVars == <<nft, mempool, mintLog>>

vars == <<claims, op, inscriptions, currentHeight, lastBlockHash, inscriptionCounter,
          fork, eventsLeft,
          wPc, wBatch, wAttested, pendingUtxos, wCycle, broadcasts,
          isRunning, poolEnded, ixPc, nft, mempool, mintLog, witness, registry, retrying, second>>

NoOp == [name |-> "none", id |-> Null, h |-> -1, txid |-> Null,
         outcome |-> "none", ret |-> NullRet]

OpOf(name, id, h, txid, outcome, ret) ==
    [name |-> name, id |-> id, h |-> h, txid |-> txid, outcome |-> outcome, ret |-> ret]

\* ---------------------------------------------------------------------
\* OrdinalsBridgeNFT
\* ---------------------------------------------------------------------
\* The max supply given at deployment.
MaxSupply == 2

TokenIds == 0 .. MaxSupply

\* The deployer, who is the oracle, and another account.
Deployer == "deployer"
Senders == {Deployer, "other"}
Recipients == {"s1", "s2"}

\* keccak256 of the inscription id string.
hashInscriptionId(id) == <<"keccak256", id>>

Hashes == {hashInscriptionId(id) : id \in InscriptionIds}

\* Storage after onDeployment: _claimed, the owners of the minted tokens,
\* _totalSupply and _attestCounter.
Deployed == [claimed |-> {}, owners |-> <<>>, totalSupply |-> 0, attestCounter |-> 0]

\* A contract that checks the sender only.
attestBurnRevertSenderOnly(c, call) ==
    IF call.sender # Deployer THEN "onlyDeployer" ELSE ""

\* The check of attestBurn that reverts the call, "" when none does.
attestBurnRevert(c, call) ==
    IF call.sender # Deployer THEN "onlyDeployer"
    ELSE IF call.inscriptionHash \in c.claimed THEN "Inscription already bridged"
    ELSE IF call.tokenId \in DOMAIN c.owners THEN "Token ID already minted"
    ELSE IF c.totalSupply >= MaxSupply THEN "Max supply reached"
    ELSE ""

\* An attestBurn without the check of _claimed.
attestBurnNoClaimedCheck(c, call) ==
    IF call.sender = Deployer /\ call.tokenId \notin DOMAIN c.owners
          /\ c.totalSupply < MaxSupply
    THEN [claimed |-> c.claimed \cup {call.inscriptionHash},
          owners |-> c.owners @@ (call.tokenId :> call.to),
          totalSupply |-> c.totalSupply + 1,
          attestCounter |-> c.attestCounter + 1]
    ELSE c

\* attestBurn(to, inscriptionHash, tokenId) sent by call.sender: the storage
\* after the call; a revert leaves it as it was.
attestBurn(c, call) ==
    IF attestBurnRevert(c, call) # "" THEN c
    ELSE [claimed |-> c.claimed \cup {call.inscriptionHash},
          owners |-> c.owners @@ (call.tokenId :> call.to),
          totalSupply |-> c.totalSupply + 1,
          attestCounter |-> c.attestCounter + 1]

\* ---------------------------------------------------------------------
\* BridgeDatabase
\* ---------------------------------------------------------------------
isClaimed(store, id) == \E i \in DOMAIN store : store[i].inscriptionId = id

\* INSERT ... ON CONFLICT (inscription_id) DO NOTHING
insertClaim(store, claim) ==
    IF isClaimed(store, claim.inscriptionId) THEN store ELSE Append(store, claim)

\* UPDATE burn_claims SET status [, attest_txid] WHERE inscription_id = id
\* (inscription_id is the primary key: at most one row matches)
updateStatus(store, id, status, attestTxid) ==
    IF ~isClaimed(store, id) THEN store
    ELSE LET k == CHOOSE i \in DOMAIN store : store[i].inscriptionId = id
         IN [store EXCEPT ![k] =
                [@ EXCEPT !.status = status,
                          !.attestTxid = IF attestTxid # Undefined THEN attestTxid ELSE @]]

\* SELECT ... WHERE status = $1 ORDER BY created_at ASC LIMIT $2
getByStatus(store, status, limit) ==
    LET rows == SelectSeq(store, LAMBDA c : c.status = status)
    IN IF Len(rows) <= limit THEN rows ELSE SubSeq(rows, 1, limit)

\* A rollback that forgets the status filter: it removes every claim at or
\* above the height, whatever its status.
deleteFromHeightAnyStatus(store, height) ==
    LET kept == SelectSeq(store, LAMBDA c : ~(c.burnBlockHeight >= height))
    IN [store |-> kept, ret |-> Len(store) - Len(kept)]

\* DELETE FROM burn_claims WHERE burn_block_height >= $1 AND status = 'detected'
deleteFromHeight(store, height) ==
    LET kept == SelectSeq(store,
                    LAMBDA c : ~(c.burnBlockHeight >= height /\ c.status = "detected"))
    IN [store |-> kept, ret |-> Len(store) - Len(kept)]

\* ---------------------------------------------------------------------
\* BridgeService
\* ---------------------------------------------------------------------
\* A processBurn that skips the isClaimed check: a second burn of a claimed
\* inscription writes a new claim over the old one and returns the token id.
processBurnNoClaimCheck(store, burn, minFee) ==
    LET tokenId == getByInscriptionId(burn.inscriptionId) IN
    IF tokenId = NullRet THEN [store |-> store, ret |-> NullRet]
    ELSE LET feePaid == IF burn.feePaid = NoFee THEN 0 ELSE burn.feePaid
             isUnderpaid == minFee > 0 /\ feePaid < minFee
             claim == [inscriptionId |-> burn.inscriptionId,
                       tokenId |-> tokenId,
                       senderAddress |-> burn.senderAddress,
                       burnTxid |-> burn.txid,
                       burnBlockHeight |-> burn.blockHeight,
                       burnBlockHash |-> burn.blockHash,
                       status |-> IF isUnderpaid THEN "underpaid" ELSE "detected",
                       attestTxid |-> Null]
             others == SelectSeq(store, LAMBDA c : c.inscriptionId # burn.inscriptionId)
         IN [store |-> Append(others, claim), ret |-> tokenId]

\* processBurn(burn), for a service configured with minimum fee minFee.
processBurn(store, burn, minFee) ==
    LET tokenId == getByInscriptionId(burn.inscriptionId) IN
    IF tokenId = NullRet THEN [store |-> store, ret |-> NullRet]
    ELSE IF isClaimed(store, burn.inscriptionId) THEN [store |-> store, ret |-> NullRet]
    ELSE LET feePaid == IF burn.feePaid = NoFee THEN 0 ELSE burn.feePaid
             isUnderpaid == minFee > 0 /\ feePaid < minFee
             claim == [inscriptionId |-> burn.inscriptionId,
                       tokenId |-> tokenId,
                       senderAddress |-> burn.senderAddress,
                       burnTxid |-> burn.txid,
                       burnBlockHeight |-> burn.blockHeight,
                       burnBlockHash |-> burn.blockHash,
                       status |-> IF isUnderpaid THEN "underpaid" ELSE "detected",
                       attestTxid |-> Null]
         IN [store |-> insertClaim(store, claim), ret |-> tokenId]

\* One iteration of the loop of confirmPendingClaims on
\* st = [store, ret, okCalls]: ret is confirmedCount, or Thrown once an
\* updateStatus call has thrown; okCalls is the number of updateStatus calls
\* that still succeed before one throws (NoFail: none throws).  A throw
\* leaves the earlier updates in place and ends the loop.
\* The step with a threshold one confirmation lower.
ConfirmStepEarly(st, claim, currentH) ==
    LET confirmations == currentH - claim.burnBlockHeight IN
    IF st.ret = Thrown THEN st
    ELSE IF confirmations >= requiredConfirmations - 1
         THEN IF st.okCalls = 0
              THEN [st EXCEPT !.ret = Thrown]
              ELSE [store |-> updateStatus(st.store, claim.inscriptionId, "confirmed", Undefined),
                    ret |-> st.ret + 1,
                    okCalls |-> IF st.okCalls = NoFail THEN NoFail ELSE st.okCalls - 1]
         ELSE st

ConfirmStep(st, claim, currentH) ==
    LET confirmations == currentH - claim.burnBlockHeight IN
    IF st.ret = Thrown THEN st
    ELSE IF confirmations >= requiredConfirmations
         THEN IF st.okCalls = 0
              THEN [st EXCEPT !.ret = Thrown]
              ELSE [store |-> updateStatus(st.store, claim.inscriptionId, "confirmed", Undefined),
                    ret |-> st.ret + 1,
                    okCalls |-> IF st.okCalls = NoFail THEN NoFail ELSE st.okCalls - 1]
         ELSE st

\* The loop over the rows read by getByStatus, in their order (the sequence
\* is walked by halves to keep the evaluation shallow).
RECURSIVE ConfirmLoop(_, _, _)
ConfirmLoop(st, pending, currentH) ==
    IF pending = <<>> THEN st
    ELSE IF Len(pending) = 1 THEN ConfirmStep(st, pending[1], currentH)
    ELSE LET half == Len(pending) \div 2
             first == ConfirmLoop(st, SubSeq(pending, 1, half), currentH)
         IN IF first.ret = Thrown THEN first
            ELSE ConfirmLoop(first, SubSeq(pending, half + 1, Len(pending)), currentH)

\* A sweep that also reads the underpaid rows.
confirmPendingClaimsAnyUnpaid(store, currentH, okCalls) ==
    LET pending == SelectSeq(store, LAMBDA c : c.status \in {"detected", "underpaid"})
        st == ConfirmLoop([store |-> store, ret |-> 0, okCalls |-> okCalls], pending, currentH)
    IN [store |-> st.store, ret |-> st.ret]

confirmPendingClaims(store, currentH, okCalls) ==
    LET pending == getByStatus(store, "detected", DEFAULT_LIMIT)
        st == ConfirmLoop([store |-> store, ret |-> 0, okCalls |-> okCalls], pending, currentH)
    IN [store |-> st.store, ret |-> st.ret]

getClaimsReadyForAttestation(store) == getByStatus(store, "confirmed", DEFAULT_LIMIT)

\* A markAttested that drops the transaction id.
markAttestedNoTxid(store, id, attestTxid) == updateStatus(store, id, "attested", Undefined)

markAttested(store, id, attestTxid) == updateStatus(store, id, "attested", attestTxid)

\* A markFailed that writes nothing.
markFailedNothing(store, id) == store

markFailed(store, id) == updateStatus(store, id, "failed", Undefined)

\* BridgeDatabase.getStats: the counts of SELECT status, COUNT(*) ... GROUP BY
\* status are added to total and written to the key of their status when the
\* stats object has that key.
StatsKeys == {"total", "detected", "confirmed", "attested", "failed"}

CountOf(store, status) == Cardinality({i \in DOMAIN store : store[i].status = status})

RECURSIVE SumCounts(_, _)
SumCounts(store, statuses) ==
    IF statuses = {} THEN 0
    ELSE LET s == CHOOSE x \in statuses : TRUE
         IN CountOf(store, s) + SumCounts(store, statuses \ {s})

dbGetStats(store) ==
    [k \in StatsKeys |->
        IF k = "total" THEN SumCounts(store, {store[i].status : i \in DOMAIN store})
        ELSE CountOf(store, k)]

\* BridgeService.getStats
getStats(store) ==
    dbGetStats(store) @@
        [collectionSize |-> Cardinality(DOMAIN itemsByInscriptionId),
         burnAddress |-> BurnAddress,
         requiredConfirmations |-> requiredConfirmations,
         minFeeSats |-> minFeeSats]

bridgeHandleReorg(store, newHeight) == deleteFromHeight(store, newHeight)

\* One iteration of the loop of retryFailedClaims on st = [store, ret].
RetryStep(st, claim) ==
    [store |-> updateStatus(st.store, claim.inscriptionId, "confirmed", Undefined),
     ret |-> st.ret + 1]

\* The loop over the failed rows read by getByStatus, in their order.
RECURSIVE RetryLoop(_, _)
RetryLoop(st, failed) ==
    IF failed = <<>> THEN st
    ELSE IF Len(failed) = 1 THEN RetryStep(st, failed[1])
    ELSE LET half == Len(failed) \div 2
             first == RetryLoop(st, SubSeq(failed, 1, half))
         IN IF first.ret = Thrown THEN first
            ELSE RetryLoop(first, SubSeq(failed, half + 1, Len(failed)))

retryFailedClaims(store) ==
    RetryLoop([store |-> store, ret |-> 0], getByStatus(store, "failed", DEFAULT_LIMIT))

\* ---------------------------------------------------------------------
\* The public API of BridgeService, called in any order (SpecApi)
\* ---------------------------------------------------------------------
ApiHeights == 0 .. MaxApiHeight

\* Burns handed to processBurn.  The burn of x2 has no second output (its
\* sender address is ''), every other burn has the sender address s1.
ApiBurns ==
    {burn \in [inscriptionId : InscriptionIds,
               senderAddress : {"s1", ""},
               txid : {"b"},
               blockHeight : ApiHeights,
               blockHash : {"h"},
               feePaid : {NoFee, minFeeSats}] :
        (burn.senderAddress = "") <=> (burn.inscriptionId = "x2")}

ApiProcessBurn ==
    \E burn \in ApiBurns :
        LET r == processBurn(claims, burn, minFeeSats) IN
        /\ claims' = r.store
        /\ op' = OpOf("processBurn", burn.inscriptionId, burn.blockHeight, Null, "ok", r.ret)
        /\ UNCHANGED <<indexerVars, envVars, workerVars, lifeVars, contractVars, witness, registry, retrying, second>>

ApiConfirmPendingClaims ==
    \E h \in ApiHeights :
        LET r == confirmPendingClaims(claims, h, NoFail) IN
        /\ claims' = r.store
        /\ op' = OpOf("confirmPendingClaims", Null, h, Null, "ok", r.ret)
        /\ UNCHANGED <<indexerVars, envVars, workerVars, lifeVars, contractVars, witness, registry, retrying, second>>

ApiMarkAttested ==
    \E id \in InscriptionIds, t \in AttestTxids :
        /\ claims' = markAttested(claims, id, t)
        /\ op' = OpOf("markAttested", id, -1, t, "ok", NullRet)
        /\ UNCHANGED <<indexerVars, envVars, workerVars, lifeVars, contractVars, witness, registry, retrying, second>>

ApiMarkFailed ==
    \E id \in InscriptionIds :
        /\ claims' = markFailed(claims, id)
        /\ op' = OpOf("markFailed", id, -1, Null, "ok", NullRet)
        /\ UNCHANGED <<indexerVars, envVars, workerVars, lifeVars, contractVars, witness, registry, retrying, second>>

ApiRetryFailedClaims ==
    LET r == retryFailedClaims(claims) IN
    /\ claims' = r.store
    /\ op' = OpOf("retryFailedClaims", Null, -1, Null, "ok", r.ret)
    /\ UNCHANGED <<indexerVars, envVars, workerVars, lifeVars, contractVars, witness, registry, retrying, second>>

ApiHandleReorg ==
    \E h \in ApiHeights :
        LET r == bridgeHandleReorg(claims, h) IN
        /\ claims' = r.store
        /\ op' = OpOf("handleReorg", Null, h, Null, "ok", r.ret)
        /\ UNCHANGED <<indexerVars, envVars, workerVars, lifeVars, contractVars, witness, registry, retrying, second>>

ApiGetStats ==
    /\ op' = OpOf("getStats", Null, -1, Null, "ok", getStats(claims))
    /\ UNCHANGED <<claims, indexerVars, envVars, workerVars, lifeVars, contractVars, witness, registry, retrying, second>>

\* The state after construction and initialize() on empty tables, with the
\* loop of start() entered.
InitCommon ==
    /\ claims = <<>>
    /\ op = NoOp
    /\ inscriptions = {}
    /\ currentHeight = StartHeight
    /\ lastBlockHash = EmptyHash
    /\ inscriptionCounter = 0
    /\ fork = Main
    /\ wPc = "idle"
    /\ wBatch = <<>>
    /\ wAttested = 0
    /\ pendingUtxos = Undefined
    /\ wCycle = <<>>
    /\ broadcasts = [id \in DOMAIN itemsByInscriptionId |-> 0]
    /\ isRunning = TRUE
    /\ poolEnded = FALSE
    /\ ixPc = "idle"
    /\ nft = Deployed
    /\ mempool = <<>>
    /\ mintLog = <<>>
    /\ witness = <<>>
    /\ registry = Loaded
    /\ retrying = NoRetry
    /\ second = NoSecond

InitApi ==
    /\ InitCommon
    /\ eventsLeft = 0

NextApi ==
    \/ ApiProcessBurn
    \/ ApiConfirmPendingClaims
    \/ ApiMarkAttested
    \/ ApiMarkFailed
    \/ ApiRetryFailedClaims
    \/ ApiHandleReorg
    \/ ApiGetStats

SpecApi == InitApi /\ [][NextApi]_vars

\* ---------------------------------------------------------------------
\* The block source
\* ---------------------------------------------------------------------
Branches == {Main} \cup (0 .. NumBlocks - 2)

OnBranch(h, b) == b # Main /\ h >= b

BlockHash(h, b) == IF OnBranch(h, b) THEN [h |-> h, b |-> b] ELSE [h |-> h, b |-> Main]

PrevHash(h, b) == IF h = 0 THEN ZeroHash ELSE BlockHash(h - 1, b)

\* A transaction that carries `envelopes` inputs with an inscription envelope
\* and pays its first output to an ordinary address.
InscribeTx(hash, envelopes) ==
    [hash |-> hash, envelopes |-> envelopes, firstOutputAddress |-> "owner",
     prevOut |-> Null, out1Address |-> "", out1Value |-> 0]

\* Sats carried by a second output.
OutputValue == 2

\* A transaction whose first output pays the burn address, whose first input
\* spends the outpoint prevOut and whose second output (if out1Address is
\* not "") pays OutputValue sats to out1Address.
BurnTx(hash, prevOut, out1Address) ==
    [hash |-> hash, envelopes |-> 0, firstOutputAddress |-> BurnAddress,
     prevOut |-> prevOut, out1Address |-> out1Address,
     out1Value |-> IF out1Address = "" THEN 0 ELSE OutputValue]

TxHash(h, n) == [h |-> h, n |-> n]

MainTxs(h) ==
    IF h % 2 = 0
    THEN <<InscribeTx(TxHash(h, "a"), 1), InscribeTx(TxHash(h, "b"), 1)>>
    ELSE <<BurnTx(TxHash(h, "x"), "x1", "s1")>>

\* A branch re-mines transaction "a" of the main block of its height.
BranchTxs(h) ==
    IF h % 2 = 0
    THEN <<InscribeTx(TxHash(h, "a"), 1), BurnTx(TxHash(h, "y"), "x2", "")>>
    ELSE <<InscribeTx(TxHash(h, "c"), 2), BurnTx(TxHash(h, "z"), Stranger, "s1")>>

\* provider.getBlock(height, true) while the source serves branch b
getBlock(h, b) ==
    [hash |-> BlockHash(h, b),
     previousBlockHash |-> PrevHash(h, b),
     transactions |-> IF OnBranch(h, b) THEN BranchTxs(h) ELSE MainTxs(h)]

\* ---------------------------------------------------------------------
\* InscriptionDatabase
\* ---------------------------------------------------------------------
\* INSERT ... ON CONFLICT (id) DO NOTHING
save(rows, inscription) ==
    IF \E r \in rows : r.id = inscription.id THEN rows ELSE rows \cup {inscription}

getCount(rows) == Cardinality(rows)

\* DELETE FROM inscriptions WHERE block_height >= $1
insDeleteFromHeight(rows, height) == {r \in rows : r.blockHeight < height}

\* ---------------------------------------------------------------------
\* OrdinalsIndexerPlugin
\* ---------------------------------------------------------------------
\* The operator's settings BRIDGE_MIN_FEE_SATS and ORACLE_FEE_ADDRESS.
BRIDGE_MIN_FEE_SATS == 2
ORACLE_FEE_ADDRESS == "oracle"

\* initializeBridge builds the BridgeService without a minFeeSats argument.
pluginMinFeeSats == 0

\* checkForBurn(tx, block, firstOutputAddress)
checkForBurn(store, tx, h, hash) ==
    IF tx.firstOutputAddress # BurnAddress THEN store
    ELSE IF tx.prevOut = Null THEN store
    ELSE IF ~hasInscription(tx.prevOut) THEN store
    ELSE processBurn(store,
                     [inscriptionId |-> tx.prevOut,
                      senderAddress |-> tx.out1Address,
                      txid |-> tx.hash,
                      blockHeight |-> h,
                      blockHash |-> hash,
                      feePaid |-> NoFee],
                     pluginMinFeeSats).store

\* The store calls of processTransaction, in order: one save per envelope
\* found, then the burn check.
TxSteps(tx) ==
    [k \in 1 .. tx.envelopes |-> [kind |-> "save", tx |-> tx, index |-> k - 1]]
        \o <<[kind |-> "burn", tx |-> tx, index |-> 0]>>

RECURSIVE BlockSteps(_)
BlockSteps(txs) ==
    IF txs = <<>> THEN <<>> ELSE TxSteps(Head(txs)) \o BlockSteps(Tail(txs))

\* A step can throw only where it calls the store.
ReachesStore(s) ==
    \/ s.kind = "save"
    \/ /\ s.kind = "burn"
       /\ s.tx.firstOutputAddress = BurnAddress
       /\ s.tx.prevOut # Null
       /\ hasInscription(s.tx.prevOut)

\* One step on st = [ins, counter, claims].  inscriptionCounter++ is
\* evaluated while the Inscription object is built, before db.save is called.
ApplyStep(st, s, h, hash, throws) ==
    IF s.kind = "save"
    THEN LET inscription == [id |-> [tx |-> s.tx.hash, index |-> s.index],
                             blockHeight |-> h,
                             blockHash |-> hash,
                             inscriptionNumber |-> st.counter]
         IN [st EXCEPT !.counter = @ + 1,
                       !.ins = IF throws THEN @ ELSE save(@, inscription)]
    ELSE IF throws THEN st
         ELSE [st EXCEPT !.claims = checkForBurn(@, s.tx, h, hash)]

\* Steps i.. of the block; the step numbered failAt throws (0: none does).
RECURSIVE RunSteps(_, _, _, _, _, _)
RunSteps(st, steps, i, failAt, h, hash) ==
    IF i > Len(steps) THEN st
    ELSE IF i = failAt THEN ApplyStep(st, steps[i], h, hash, TRUE)
    ELSE RunSteps(ApplyStep(st, steps[i], h, hash, FALSE), steps, i + 1, failAt, h, hash)

IxState == [ins |-> inscriptions, counter |-> inscriptionCounter, claims |-> claims]

ReorgDetected(block) ==
    lastBlockHash # EmptyHash /\ block.previousBlockHash # lastBlockHash

\* processNextBlock: the block is fetched and its parent is not lastBlockHash;
\* handleReorg(currentHeight) runs and the height is not advanced.
IxReorg ==
    /\ currentHeight < NumBlocks
    /\ ReorgDetected(getBlock(currentHeight, fork))
    /\ LET r == bridgeHandleReorg(claims, currentHeight) IN
       /\ inscriptions' = insDeleteFromHeight(inscriptions, currentHeight)
       /\ currentHeight' = currentHeight
       /\ inscriptionCounter' = getCount(inscriptions')
       /\ claims' = r.store
       /\ op' = OpOf("processNextBlock", Null, currentHeight, Null, "reorg", r.ret)
    /\ ixPc' = "idle"
    /\ UNCHANGED <<lastBlockHash, envVars, workerVars, isRunning, poolEnded, contractVars, witness, registry, retrying, second>>

\* As IxReorg, but bridge.handleReorg throws; the loop logs and sleeps.
IxReorgFails ==
    /\ currentHeight < NumBlocks
    /\ ReorgDetected(getBlock(currentHeight, fork))
    /\ eventsLeft > 0
    /\ eventsLeft' = eventsLeft - 1
    /\ inscriptions' = insDeleteFromHeight(inscriptions, currentHeight)
    /\ currentHeight' = currentHeight
    /\ inscriptionCounter' = getCount(inscriptions')
    /\ op' = OpOf("processNextBlock", Null, currentHeight, Null, "error", Thrown)
    /\ ixPc' = "idle"
    /\ UNCHANGED <<claims, lastBlockHash, fork, workerVars, isRunning, poolEnded, contractVars, witness, registry, retrying, second>>

\* As IxReorg, but the inscriptions store rejects deleteFromHeight, getCount
\* or both: deleteFromHeight catches the error and returns 0 (no row is
\* deleted), getCount catches it and returns 0; handleReorg goes on.
IxReorgStoreDown ==
    /\ currentHeight < NumBlocks
    /\ ReorgDetected(getBlock(currentHeight, fork))
    /\ eventsLeft > 0
    /\ eventsLeft' = eventsLeft - 1
    /\ \E deleteFails, countFails \in BOOLEAN :
          /\ deleteFails \/ countFails
          /\ inscriptions' = IF deleteFails THEN inscriptions
                             ELSE insDeleteFromHeight(inscriptions, currentHeight)
          /\ inscriptionCounter' = IF countFails THEN 0 ELSE getCount(inscriptions')
    /\ LET r == bridgeHandleReorg(claims, currentHeight) IN
       /\ claims' = r.store
       /\ op' = OpOf("processNextBlock", Null, currentHeight, Null, "reorg", r.ret)
    /\ currentHeight' = currentHeight
    /\ ixPc' = "idle"
    /\ UNCHANGED <<lastBlockHash, fork, workerVars, isRunning, poolEnded, contractVars, witness, registry, retrying, second>>

\* processNextBlock: every transaction is processed, pending claims are
\* confirmed, lastBlockHash and currentHeight advance.
IxBlockOk ==
    /\ currentHeight < NumBlocks
    /\ LET block == getBlock(currentHeight, fork)
           st == RunSteps(IxState, BlockSteps(block.transactions), 1, 0,
                          currentHeight, block.hash)
           conf == confirmPendingClaims(st.claims, currentHeight, NoFail)
       IN /\ ~ReorgDetected(block)
          /\ inscriptions' = st.ins
          /\ inscriptionCounter' = st.counter
          /\ claims' = conf.store
          /\ lastBlockHash' = block.hash
          /\ currentHeight' = currentHeight + 1
          /\ op' = OpOf("processNextBlock", Null, currentHeight, Null, "advanced", conf.ret)
    /\ ixPc' = "idle"
    /\ UNCHANGED <<envVars, workerVars, isRunning, poolEnded, contractVars, witness, registry, retrying, second>>

\* processNextBlock: a store call of some transaction throws; what was
\* written before stays, the height is not advanced.
IxBlockFails ==
    /\ currentHeight < NumBlocks
    /\ eventsLeft > 0
    /\ LET block == getBlock(currentHeight, fork)
           steps == BlockSteps(block.transactions)
       IN /\ ~ReorgDetected(block)
          /\ \E failAt \in 1 .. Len(steps) :
                /\ ReachesStore(steps[failAt])
                /\ LET st == RunSteps(IxState, steps, 1, failAt, currentHeight, block.hash)
                   IN /\ inscriptions' = st.ins
                      /\ inscriptionCounter' = st.counter
                      /\ claims' = st.claims
    /\ eventsLeft' = eventsLeft - 1
    /\ op' = OpOf("processNextBlock", Null, currentHeight, Null, "error", Thrown)
    /\ ixPc' = "idle"
    /\ UNCHANGED <<currentHeight, lastBlockHash, fork, workerVars, isRunning, poolEnded, contractVars, witness, registry, retrying, second>>

\* processNextBlock: the transactions are processed and confirmPendingClaims
\* throws, in getByStatus (okCalls = NoFail below) or in an updateStatus.
IxConfirmFails ==
    /\ currentHeight < NumBlocks
    /\ eventsLeft > 0
    /\ LET block == getBlock(currentHeight, fork)
           st == RunSteps(IxState, BlockSteps(block.transactions), 1, 0,
                          currentHeight, block.hash)
       IN /\ ~ReorgDetected(block)
          /\ inscriptions' = st.ins
          /\ inscriptionCounter' = st.counter
          /\ \E okCalls \in {NoFail} \cup (0 .. Len(st.claims)) :
                IF okCalls = NoFail
                THEN claims' = st.claims
                ELSE LET conf == confirmPendingClaims(st.claims, currentHeight, okCalls)
                     IN conf.ret = Thrown /\ claims' = conf.store
    /\ eventsLeft' = eventsLeft - 1
    /\ op' = OpOf("processNextBlock", Null, currentHeight, Null, "error", Thrown)
    /\ ixPc' = "idle"
    /\ UNCHANGED <<currentHeight, lastBlockHash, fork, workerVars, isRunning, poolEnded, contractVars, witness, registry, retrying, second>>

\* processNextBlock: getBlock reports "not found"; the loop sleeps.
IxNotFound ==
    /\ currentHeight >= NumBlocks
    /\ op' = OpOf("processNextBlock", Null, currentHeight, Null, "notfound", NullRet)
    /\ ixPc' = "idle"
    /\ UNCHANGED <<claims, indexerVars, envVars, workerVars, isRunning, poolEnded, contractVars, witness, registry, retrying, second>>

\* An IxFetchError that moves on to the next height.
IxFetchErrorAdvances ==
    /\ op' = OpOf("processNextBlock", Null, currentHeight, Null, "fetcherror", Thrown)
    /\ currentHeight' = currentHeight + 1
    /\ ixPc' = "idle"
    /\ UNCHANGED <<claims, inscriptions, lastBlockHash, inscriptionCounter, envVars, workerVars, isRunning, poolEnded, contractVars, witness, registry, retrying, second>>

\* processNextBlock: getBlock fails otherwise; the loop logs and sleeps.
IxFetchError ==
    /\ op' = OpOf("processNextBlock", Null, currentHeight, Null, "fetcherror", Thrown)
    /\ ixPc' = "idle"
    /\ UNCHANGED <<claims, indexerVars, envVars, workerVars, isRunning, poolEnded, contractVars, witness, registry, retrying, second>>

processNextBlock ==
    \/ IxReorg
    \/ IxReorgFails
    \/ IxReorgStoreDown
    \/ IxBlockOk
    \/ IxBlockFails
    \/ IxConfirmFails
    \/ IxNotFound
    \/ IxFetchError

\* The process is started again: constructor, initialize() and start().
Restart ==
    /\ eventsLeft > 0
    /\ eventsLeft' = eventsLeft - 1
    /\ currentHeight' = StartHeight
    /\ lastBlockHash' = EmptyHash
    /\ inscriptionCounter' = getCount(inscriptions)
    /\ wPc' = "idle"
    /\ wBatch' = <<>>
    /\ wAttested' = 0
    /\ pendingUtxos' = Undefined
    /\ wCycle' = <<>>
    /\ op' = OpOf("restart", Null, -1, Null, "ok", NullRet)
    /\ isRunning' = TRUE
    /\ poolEnded' = FALSE
    /\ ixPc' = "idle"
    /\ UNCHANGED <<claims, inscriptions, fork, broadcasts, contractVars, witness, registry, retrying, second>>

\* As Restart, but the store rejects the getCount of initialize(), which
\* catches the error and returns 0.
RestartStoreDown ==
    /\ eventsLeft > 1
    /\ eventsLeft' = eventsLeft - 2
    /\ currentHeight' = StartHeight
    /\ lastBlockHash' = EmptyHash
    /\ inscriptionCounter' = 0
    /\ wPc' = "idle"
    /\ wBatch' = <<>>
    /\ wAttested' = 0
    /\ pendingUtxos' = Undefined
    /\ wCycle' = <<>>
    /\ op' = OpOf("restart", Null, -1, Null, "ok", NullRet)
    /\ isRunning' = TRUE
    /\ poolEnded' = FALSE
    /\ ixPc' = "idle"
    /\ UNCHANGED <<claims, inscriptions, fork, broadcasts, contractVars, witness, registry, retrying, second>>

\* The block source switches to another branch.
ChainReorg ==
    /\ eventsLeft > 0
    /\ eventsLeft' = eventsLeft - 1
    /\ \E b \in Branches \ {fork} : fork' = b
    /\ op' = OpOf("chainReorg", Null, -1, Null, "ok", NullRet)
    /\ UNCHANGED <<claims, indexerVars, workerVars, lifeVars, contractVars, witness, registry, retrying, second>>

\* ---------------------------------------------------------------------
\* AttestationWorker
\* ---------------------------------------------------------------------
\* Addresses btcAddress.fromBech32 decodes.
Bech32Ok(addr) == addr \in {"s1"}

\* The OPNet Address of a bech32 address: its witness program.
bech32ToAddress(addr) == <<"program", addr>>

\* The attestBurn call attestClaim builds for a claim; the wallet is the
\* deployer's.
AttestCall(claim) ==
    [sender |-> Deployer,
     to |-> bech32ToAddress(claim.senderAddress),
     inscriptionHash |-> hashInscriptionId(claim.inscriptionId),
     tokenId |-> claim.tokenId]

\* sendTransaction: the transaction joins the pending ones.
Broadcast(pending, call) ==
    IF call \in DOMAIN pending THEN [pending EXCEPT ![call] = @ + 1]
    ELSE pending @@ (call :> 1)

\* A slice that cuts nothing.
SliceAll(seq, n) == seq

Slice(seq, n) == IF Len(seq) <= n THEN seq ELSE SubSeq(seq, 1, n)

\* processConfirmedClaims up to the loop: read the queue, cut the batch.
WorkerStart ==
    /\ wPc = "idle"
    /\ LET ready == getClaimsReadyForAttestation(claims) IN
       IF Len(ready) = 0
       THEN /\ op' = OpOf("processConfirmedClaims", Null, -1, Null, "empty", 0)
            /\ UNCHANGED <<wPc, wBatch, wAttested, wCycle>>
       ELSE /\ wBatch' = Slice(ready, MAX_ATTESTATIONS_PER_CYCLE)
            /\ wCycle' = [k \in DOMAIN wBatch' |-> wBatch'[k].inscriptionId]
            /\ wAttested' = 0
            /\ wPc' = "loop"
            /\ op' = OpOf("processConfirmedClaims", Null, -1, Null, "started", NullRet)
    /\ UNCHANGED <<claims, indexerVars, envVars, pendingUtxos, broadcasts, lifeVars, contractVars, witness, registry, retrying, second>>

\* attestClaim: conversion, simulation and broadcast succeed; the receipt's
\* outputs become pendingUtxos and the claim is marked attested.
WorkerAttestOk ==
    /\ wPc = "loop"
    /\ wBatch # <<>>
    /\ LET claim == Head(wBatch) IN
       /\ Bech32Ok(claim.senderAddress)
       /\ attestBurnRevert(nft, AttestCall(claim)) = ""
       /\ \E t \in AttestTxids :
             /\ pendingUtxos' = t
             /\ claims' = markAttested(claims, claim.inscriptionId, t)
             /\ op' = OpOf("attestClaim", claim.inscriptionId, -1, t, "attested", NullRet)
       /\ broadcasts' = [broadcasts EXCEPT ![claim.inscriptionId] = @ + 1]
       /\ mempool' = Broadcast(mempool, AttestCall(claim))
    /\ wAttested' = wAttested + 1
    /\ wBatch' = Tail(wBatch)
    /\ UNCHANGED <<wPc, wCycle, indexerVars, envVars, lifeVars, nft, mintLog, witness, registry, retrying, second>>

\* attestClaim: the address conversion fails, the simulation reverts or
\* throws, or sendTransaction throws; the claim is marked failed.
WorkerAttestFail ==
    /\ wPc = "loop"
    /\ wBatch # <<>>
    /\ LET claim == Head(wBatch) IN
       /\ \E kind \in {"conversion", "revert", "simulate", "send"} :
             /\ (kind = "conversion") <=> ~Bech32Ok(claim.senderAddress)
             /\ op' = OpOf("attestClaim", claim.inscriptionId, -1, Null, kind, NullRet)
       /\ claims' = markFailed(claims, claim.inscriptionId)
    /\ wBatch' = Tail(wBatch)
    /\ UNCHANGED <<wPc, wAttested, pendingUtxos, wCycle, broadcasts, indexerVars, envVars, lifeVars, contractVars, witness, registry, retrying, second>>

\* attestClaim: the broadcast returns a receipt and markAttested throws
\* (the store fails).  The catch of processConfirmedClaims calls markFailed.
WorkerMarkThrows ==
    /\ wPc = "loop"
    /\ wBatch # <<>>
    /\ eventsLeft > 0
    /\ eventsLeft' = eventsLeft - 1
    /\ LET claim == Head(wBatch) IN
       /\ Bech32Ok(claim.senderAddress)
       /\ attestBurnRevert(nft, AttestCall(claim)) = ""
       /\ \E t \in AttestTxids :
             /\ pendingUtxos' = t
             /\ op' = OpOf("attestClaim", claim.inscriptionId, -1, t, "markThrows", Thrown)
       /\ broadcasts' = [broadcasts EXCEPT ![claim.inscriptionId] = @ + 1]
       /\ mempool' = Broadcast(mempool, AttestCall(claim))
       /\ claims' = markFailed(claims, claim.inscriptionId)
    /\ wBatch' = Tail(wBatch)
    /\ UNCHANGED <<wPc, wAttested, wCycle, indexerVars, fork, lifeVars, nft, mintLog, witness, registry, retrying, second>>

\* As WorkerMarkThrows, and the markFailed of the catch throws as well: the
\* exception leaves processConfirmedClaims, the claim stays as it was.
WorkerCycleThrows ==
    /\ wPc = "loop"
    /\ wBatch # <<>>
    /\ eventsLeft > 0
    /\ eventsLeft' = eventsLeft - 1
    /\ LET claim == Head(wBatch) IN
       /\ Bech32Ok(claim.senderAddress)
       /\ attestBurnRevert(nft, AttestCall(claim)) = ""
       /\ \E t \in AttestTxids :
             /\ pendingUtxos' = t
             /\ op' = OpOf("processConfirmedClaims", claim.inscriptionId, -1, t, "thrown", Thrown)
       /\ broadcasts' = [broadcasts EXCEPT ![claim.inscriptionId] = @ + 1]
       /\ mempool' = Broadcast(mempool, AttestCall(claim))
    /\ wPc' = "idle"
    /\ wBatch' = <<>>
    /\ wCycle' = <<>>
    /\ UNCHANGED <<claims, wAttested, indexerVars, fork, lifeVars, nft, mintLog, witness, registry, retrying, second>>

\* processConfirmedClaims: getClaimsReadyForAttestation throws (the store
\* fails) and the exception leaves processConfirmedClaims before the loop.
WorkerStartThrows ==
    /\ wPc = "idle"
    /\ eventsLeft > 0
    /\ eventsLeft' = eventsLeft - 1
    /\ op' = OpOf("processConfirmedClaims", Null, -1, Null, "thrown", Thrown)
    /\ UNCHANGED <<claims, workerVars, indexerVars, fork, lifeVars, contractVars, witness, registry, retrying, second>>

\* attestClaim: the conversion fails, the simulation reverts or throws, or
\* sendTransaction throws, and markFailed throws (the store fails), in the
\* handler and again in the catch of processConfirmedClaims: the exception
\* leaves processConfirmedClaims, the claim stays as it was.
WorkerFailThrows ==
    /\ wPc = "loop"
    /\ wBatch # <<>>
    /\ eventsLeft > 0
    /\ eventsLeft' = eventsLeft - 1
    /\ op' = OpOf("processConfirmedClaims", Head(wBatch).inscriptionId, -1, Null, "thrown", Thrown)
    /\ wPc' = "idle"
    /\ wBatch' = <<>>
    /\ wCycle' = <<>>
    /\ UNCHANGED <<claims, wAttested, pendingUtxos, broadcasts, indexerVars, fork, lifeVars, contractVars, witness, registry, retrying, second>>

\* processConfirmedClaims: the loop is over, the counter is returned.
WorkerEnd ==
    /\ wPc = "loop"
    /\ wBatch = <<>>
    /\ wPc' = "idle"
    /\ op' = OpOf("processConfirmedClaims", Null, -1, Null, "returned", wAttested)
    /\ wCycle' = <<>>
    /\ UNCHANGED <<claims, wBatch, wAttested, pendingUtxos, broadcasts, indexerVars, envVars, lifeVars, contractVars, witness, registry, retrying, second>>

processConfirmedClaims ==
    \/ WorkerStart
    \/ WorkerAttestOk
    \/ WorkerAttestFail
    \/ WorkerMarkThrows
    \/ WorkerCycleThrows
    \/ WorkerStartThrows
    \/ WorkerFailThrows
    \/ WorkerEnd

\* ---------------------------------------------------------------------
\* The running plugin: indexer loop, worker cycles, POST /bridge/retry-failed
\* ---------------------------------------------------------------------
Init ==
    /\ InitCommon
    /\ eventsLeft = MaxEvents

Next ==
    \/ IxReorg
    \/ IxReorgFails
    \/ IxReorgStoreDown
    \/ IxBlockOk
    \/ IxBlockFails
    \/ IxConfirmFails
    \/ IxNotFound
    \/ IxFetchError
    \/ Restart
    \/ RestartStoreDown
    \/ ChainReorg
    \/ WorkerStart
    \/ WorkerAttestOk
    \/ WorkerAttestFail
    \/ WorkerMarkThrows
    \/ WorkerCycleThrows
    \/ WorkerStartThrows
    \/ WorkerFailThrows
    \/ WorkerEnd
    \/ ApiRetryFailedClaims

Spec == Init /\ [][Next]_vars

\* ---------------------------------------------------------------------
\* The bridge service over a long queue (SpecSweep)
\* ---------------------------------------------------------------------
\* n claims of one status, burnt at height 0, numbered in created_at order.
QueueOf(n, status) ==
    [i \in 1 .. n |->
        [inscriptionId |-> i,
         tokenId |-> i - 1,
         senderAddress |-> "s1",
         burnTxid |-> "b",
         burnBlockHeight |-> 0,
         burnBlockHash |-> "h",
         status |-> status,
         attestTxid |-> Null]]

InitSweep ==
    /\ \E n \in 0 .. MaxQueue : \E status \in {"detected", "confirmed", "failed"} :
          claims = QueueOf(n, status)
    /\ op = NoOp
    /\ inscriptions = {}
    /\ currentHeight = StartHeight
    /\ lastBlockHash = EmptyHash
    /\ inscriptionCounter = 0
    /\ fork = Main
    /\ wPc = "idle"
    /\ wBatch = <<>>
    /\ wAttested = 0
    /\ pendingUtxos = Undefined
    /\ wCycle = <<>>
    /\ broadcasts = [id \in DOMAIN itemsByInscriptionId |-> 0]
    /\ isRunning = TRUE
    /\ poolEnded = FALSE
    /\ ixPc = "idle"
    /\ nft = Deployed
    /\ mempool = <<>>
    /\ mintLog = <<>>
    /\ witness = <<>>
    /\ registry = Loaded
    /\ retrying = NoRetry
    /\ second = NoSecond
    /\ eventsLeft = 0

NextSweep ==
    \/ ApiConfirmPendingClaims
    \/ ApiRetryFailedClaims
    \/ ApiHandleReorg

SpecSweep == InitSweep /\ [][NextSweep]_vars

\* ---------------------------------------------------------------------
\* The bridge service with the attestation worker (SpecBridge): burns are
\* handed to processBurn, sweeps, retries and rollbacks are called in any
\* order, and worker cycles run step by step in between.
\* ---------------------------------------------------------------------
InitBridge ==
    /\ InitCommon
    /\ eventsLeft = MaxEvents

NextBridge ==
    \/ ApiProcessBurn
    \/ ApiConfirmPendingClaims
    \/ ApiRetryFailedClaims
    \/ ApiHandleReorg
    \/ WorkerStart
    \/ WorkerAttestOk
    \/ WorkerAttestFail
    \/ WorkerMarkThrows
    \/ WorkerCycleThrows
    \/ WorkerStartThrows
    \/ WorkerFailThrows
    \/ WorkerEnd

SpecBridge == InitBridge /\ [][NextBridge]_vars

\* ---------------------------------------------------------------------
\* Worker cycles over a queue longer than one batch (SpecCap).  Receipts
\* carry the transaction id "t1"; within a cycle the failing claims come
\* before the first claim that is attested.
\* ---------------------------------------------------------------------
InitCap ==
    /\ \E n \in 0 .. MaxBatchQueue : claims = QueueOf(n, "confirmed")
    /\ op = NoOp
    /\ inscriptions = {}
    /\ currentHeight = StartHeight
    /\ lastBlockHash = EmptyHash
    /\ inscriptionCounter = 0
    /\ fork = Main
    /\ wPc = "idle"
    /\ wBatch = <<>>
    /\ wAttested = 0
    /\ pendingUtxos = Undefined
    /\ wCycle = <<>>
    /\ broadcasts = [id \in 1 .. MaxBatchQueue |-> 0]
    /\ isRunning = TRUE
    /\ poolEnded = FALSE
    /\ ixPc = "idle"
    /\ nft = Deployed
    /\ mempool = <<>>
    /\ mintLog = <<>>
    /\ witness = <<>>
    /\ registry = Loaded
    /\ retrying = NoRetry
    /\ second = NoSecond
    /\ eventsLeft = 0

NextCap ==
    \/ WorkerStart
    \/ WorkerAttestOk /\ op'.txid = "t1"
    \/ WorkerAttestFail /\ op'.outcome = "revert" /\ wAttested = 0
    \/ WorkerEnd

SpecCap == InitCap /\ [][NextCap]_vars

\* ---------------------------------------------------------------------
\* Shutdown (SpecStop).  The loop of start() is followed across the await of
\* getBlock, so that the signal handler's stop() can run while a block is in
\* flight.  stop() ends the pool of InscriptionDatabase only; the pool of
\* BridgeDatabase is a second pool that nothing ends.  process.exit follows
\* once pool.end() has resolved; the steps below are those that run before it.
\* ---------------------------------------------------------------------
\* while (this.isRunning): processNextBlock is entered and asks for the block.
LoopFetch ==
    /\ isRunning
    /\ ixPc = "idle"
    /\ ixPc' = "block"
    /\ op' = OpOf("getBlock", Null, currentHeight, Null, "pending", NullRet)
    /\ UNCHANGED <<claims, indexerVars, envVars, workerVars, isRunning, poolEnded, contractVars, witness, registry, retrying, second>>

\* The rest of processNextBlock.  A fetch that fails calls no store.
LoopBlock ==
    /\ ixPc = "block"
    /\ \/ IxNotFound
       \/ IxFetchError
       \/ ~poolEnded /\ IxReorg
       \/ ~poolEnded /\ IxReorgFails
       \/ ~poolEnded /\ IxBlockOk
       \/ ~poolEnded /\ IxBlockFails
       \/ ~poolEnded /\ IxConfirmFails

\* The steps of the block that call db.save.
SaveSteps(steps) == {i \in DOMAIN steps : steps[i].kind = "save"}

Min(S) == CHOOSE x \in S : \A y \in S : x <= y

\* The rest of processNextBlock after stop(): queries on the ended pool are
\* rejected.  deleteFromHeight and getCount swallow the error and return 0,
\* save rethrows it; the bridge's queries go to its own pool and succeed.
LoopBlockPoolEnded ==
    /\ ixPc = "block"
    /\ poolEnded
    /\ currentHeight < NumBlocks
    /\ LET block == getBlock(currentHeight, fork)
           steps == BlockSteps(block.transactions)
       IN IF ReorgDetected(block)
          THEN LET r == bridgeHandleReorg(claims, currentHeight) IN
               /\ inscriptionCounter' = 0
               /\ claims' = r.store
               /\ op' = OpOf("processNextBlock", Null, currentHeight, Null, "reorg", r.ret)
               /\ UNCHANGED <<inscriptions, currentHeight, lastBlockHash>>
          ELSE IF SaveSteps(steps) # {}
          THEN LET st == RunSteps(IxState, steps, 1, Min(SaveSteps(steps)),
                                  currentHeight, block.hash) IN
               /\ inscriptions' = st.ins
               /\ inscriptionCounter' = st.counter
               /\ claims' = st.claims
               /\ op' = OpOf("processNextBlock", Null, currentHeight, Null, "error", Thrown)
               /\ UNCHANGED <<currentHeight, lastBlockHash>>
          ELSE LET st == RunSteps(IxState, steps, 1, 0, currentHeight, block.hash)
                   conf == confirmPendingClaims(st.claims, currentHeight, NoFail) IN
               /\ inscriptions' = st.ins
               /\ inscriptionCounter' = st.counter
               /\ claims' = conf.store
               /\ lastBlockHash' = block.hash
               /\ currentHeight' = currentHeight + 1
               /\ op' = OpOf("processNextBlock", Null, currentHeight, Null, "advanced", conf.ret)
    /\ ixPc' = "idle"
    /\ UNCHANGED <<envVars, workerVars, isRunning, poolEnded, contractVars, witness, registry, retrying, second>>

\* The SIGINT/SIGTERM handler: plugin.stop() clears isRunning and calls
\* db.close(), which calls pool.end(), without waiting for anything.
stop ==
    /\ ~poolEnded
    /\ isRunning' = FALSE
    /\ poolEnded' = TRUE
    /\ op' = OpOf("stop", Null, currentHeight, Null, "ok", NullRet)
    /\ UNCHANGED <<claims, indexerVars, envVars, workerVars, ixPc, contractVars, witness, registry, retrying, second>>

InitStop ==
    /\ InitCommon
    /\ eventsLeft = MaxEvents

NextStop ==
    \/ LoopFetch
    \/ LoopBlock
    \/ LoopBlockPoolEnded
    \/ stop
    \/ ChainReorg
    \/ WorkerStart
    \/ WorkerAttestOk
    \/ WorkerAttestFail
    \/ WorkerEnd

SpecStop == InitStop /\ [][NextStop]_vars

\* ---------------------------------------------------------------------
\* The plugin as index.ts runs it (SpecPlugin), with every bridge and worker
\* setting present in the environment.  main() builds the plugin from
\* loadBridgeConfig(), which reads the BRIDGE_* settings of the bridge;
\* initialize() and initializeBridge() build the stores, the registry, the
\* bridge service and the HTTP routes, and start() runs processNextBlock.
\* Nothing reads DEPLOYER_MNEMONIC or BRIDGE_CONTRACT_ADDRESS and nothing
\* constructs an AttestationWorker, so no step of the worker is a step of
\* the running plugin.
\* ---------------------------------------------------------------------
DEPLOYER_MNEMONIC == "mnemonic"
BRIDGE_CONTRACT_ADDRESS == "contract"

InitPlugin ==
    /\ InitCommon
    /\ eventsLeft = MaxEvents

NextPlugin ==
    \/ IxReorg
    \/ IxReorgFails
    \/ IxReorgStoreDown
    \/ IxBlockOk
    \/ IxBlockFails
    \/ IxConfirmFails
    \/ IxNotFound
    \/ IxFetchError
    \/ Restart
    \/ RestartStoreDown
    \/ ChainReorg
    \/ ApiRetryFailedClaims

SpecPlugin == InitPlugin /\ [][NextPlugin]_vars

\* The loop keeps running and its fetches and store calls eventually succeed.
FairSpecPlugin == SpecPlugin /\ WF_vars(IxReorg \/ IxBlockOk)

\* ---------------------------------------------------------------------
\* checkForBurn over burn transactions of any layout (SpecLayout).  A
\* transaction has up to three outputs; its hash stands for its content.
\* ---------------------------------------------------------------------
LayoutTxs ==
    {[hash |-> [prevOut |-> p, out1 |-> o1, out2 |-> o2],
      envelopes |-> 0,
      firstOutputAddress |-> BurnAddress,
      prevOut |-> p,
      out1Address |-> o1,
      out1Value |-> IF o1 = "" THEN 0 ELSE OutputValue,
      out2Address |-> o2] :
        p \in {"x1", "x2", Stranger},
        o1 \in {"", "s1", ORACLE_FEE_ADDRESS},
        o2 \in {"", "s1"}}

LayoutTxOf(txid) == CHOOSE tx \in LayoutTxs : tx.hash = txid

\* processTransaction reaches checkForBurn for a transaction of a block at
\* height h.
LayoutCheckForBurn ==
    \E tx \in LayoutTxs, h \in ApiHeights :
        /\ claims' = checkForBurn(claims, tx, h, BlockHash(h, Main))
        /\ op' = OpOf("checkForBurn", tx.prevOut, h, tx.hash,
                      IF claims' = claims THEN "none" ELSE "claimed", NullRet)
        /\ UNCHANGED <<indexerVars, envVars, workerVars, lifeVars, contractVars, witness, registry, retrying, second>>

\* A reorg at height h removes the detected claims from h on.
LayoutHandleReorg ==
    \E h \in ApiHeights :
        LET r == bridgeHandleReorg(claims, h) IN
        /\ claims' = r.store
        /\ op' = OpOf("handleReorg", Null, h, Null, "ok", r.ret)
        /\ UNCHANGED <<indexerVars, envVars, workerVars, lifeVars, contractVars, witness, registry, retrying, second>>

InitLayout ==
    /\ InitCommon
    /\ eventsLeft = 0

NextLayout ==
    \/ LayoutCheckForBurn
    \/ LayoutHandleReorg

SpecLayout == InitLayout /\ [][NextLayout]_vars

\* ---------------------------------------------------------------------
\* The contract alone (SpecContract): any account calls attestBurn with any
\* recipient, inscription hash and token id.
\* ---------------------------------------------------------------------
Calls == [sender : Senders, to : Recipients, inscriptionHash : Hashes, tokenId : TokenIds]

ContractAttestBurn ==
    \E call \in Calls :
        LET revert == attestBurnRevert(nft, call) IN
        /\ nft' = attestBurn(nft, call)
        /\ mintLog' = IF nft' # nft THEN Append(mintLog, call) ELSE mintLog
        /\ op' = OpOf("attestBurn", call.inscriptionHash, call.tokenId, Null,
                      IF revert = "" THEN "minted" ELSE revert, NullRet)
        /\ UNCHANGED <<claims, indexerVars, envVars, workerVars, lifeVars, mempool, witness, registry, retrying, second>>

InitContract ==
    /\ InitCommon
    /\ eventsLeft = 0

NextContract == ContractAttestBurn

SpecContract == InitContract /\ [][NextContract]_vars

\* ---------------------------------------------------------------------
\* Workers and the contract (SpecMint): a queue of confirmed claims, the
\* worker's cycles, a second worker instance on the same store and contract,
\* a crash of the worker between its broadcast and markAttested, and the
\* chain executing the pending transactions in any order.
\* ---------------------------------------------------------------------
MaxMintQueue == 2

\* One pending transaction is taken out of the pending ones.
Executed(pending, call) ==
    IF pending[call] = 1
    THEN [c \in DOMAIN pending \ {call} |-> pending[c]]
    ELSE [pending EXCEPT ![call] = @ - 1]

\* The chain executes a pending attestBurn transaction.
ChainExecutes ==
    \E call \in DOMAIN mempool :
        LET revert == attestBurnRevert(nft, call) IN
        /\ nft' = attestBurn(nft, call)
        /\ mintLog' = IF nft' # nft THEN Append(mintLog, call) ELSE mintLog
        /\ mempool' = Executed(mempool, call)
        /\ op' = OpOf("attestBurn", call.inscriptionHash, call.tokenId, Null,
                      IF revert = "" THEN "minted" ELSE revert, NullRet)
        /\ UNCHANGED <<claims, indexerVars, envVars, workerVars, lifeVars, witness, registry, retrying, second>>

\* attestClaim: the broadcast returns a receipt and the process dies before
\* markAttested; the worker is constructed again.
WorkerCrashAfterBroadcast ==
    /\ wPc = "loop"
    /\ wBatch # <<>>
    /\ eventsLeft > 0
    /\ eventsLeft' = eventsLeft - 1
    /\ LET claim == Head(wBatch) IN
       /\ Bech32Ok(claim.senderAddress)
       /\ attestBurnRevert(nft, AttestCall(claim)) = ""
       /\ broadcasts' = [broadcasts EXCEPT ![claim.inscriptionId] = @ + 1]
       /\ mempool' = Broadcast(mempool, AttestCall(claim))
       /\ op' = OpOf("attestClaim", claim.inscriptionId, -1, Null, "crash", NullRet)
    /\ wPc' = "idle"
    /\ wBatch' = <<>>
    /\ wCycle' = <<>>
    /\ wAttested' = 0
    /\ pendingUtxos' = Undefined
    /\ UNCHANGED <<claims, indexerVars, fork, lifeVars, nft, mintLog, witness, registry, retrying, second>>

\* attestClaim of a second worker instance for a claim its
\* getClaimsReadyForAttestation returned: the simulation reverts and the
\* claim is marked failed, or the transaction is broadcast and the claim is
\* marked attested.
OtherWorkerAttestClaim ==
    \E k \in DOMAIN claims :
        LET claim == claims[k]
            t == CHOOSE x \in AttestTxids : TRUE
        IN
        /\ claim.status = "confirmed"
        /\ Bech32Ok(claim.senderAddress)
        /\ IF attestBurnRevert(nft, AttestCall(claim)) # ""
           THEN /\ claims' = markFailed(claims, claim.inscriptionId)
                /\ op' = OpOf("otherAttestClaim", claim.inscriptionId, -1, Null, "revert", NullRet)
                /\ UNCHANGED <<broadcasts, mempool>>
           ELSE /\ claims' = markAttested(claims, claim.inscriptionId, t)
                /\ broadcasts' = [broadcasts EXCEPT ![claim.inscriptionId] = @ + 1]
                /\ mempool' = Broadcast(mempool, AttestCall(claim))
                /\ op' = OpOf("otherAttestClaim", claim.inscriptionId, -1, t, "attested", NullRet)
        /\ UNCHANGED <<wPc, wBatch, wAttested, pendingUtxos, wCycle, indexerVars, envVars, lifeVars, nft, mintLog, witness, registry, retrying, second>>

InitMint ==
    /\ \E n \in 1 .. MaxMintQueue : claims = QueueOf(n, "confirmed")
    /\ op = NoOp
    /\ inscriptions = {}
    /\ currentHeight = StartHeight
    /\ lastBlockHash = EmptyHash
    /\ inscriptionCounter = 0
    /\ fork = Main
    /\ wPc = "idle"
    /\ wBatch = <<>>
    /\ wAttested = 0
    /\ pendingUtxos = Undefined
    /\ wCycle = <<>>
    /\ broadcasts = [id \in 1 .. MaxMintQueue |-> 0]
    /\ isRunning = TRUE
    /\ poolEnded = FALSE
    /\ ixPc = "idle"
    /\ nft = Deployed
    /\ mempool = <<>>
    /\ mintLog = <<>>
    /\ witness = <<>>
    /\ registry = Loaded
    /\ retrying = NoRetry
    /\ second = NoSecond
    /\ eventsLeft = MaxEvents

NextMint ==
    \/ WorkerStart
    \/ WorkerAttestOk
    \/ WorkerAttestFail
    \/ WorkerEnd
    \/ WorkerCrashAfterBroadcast
    \/ OtherWorkerAttestClaim
    \/ ChainExecutes

SpecMint == InitMint /\ [][NextMint]_vars

\* ---------------------------------------------------------------------
\* OrdinalsParser
\* ---------------------------------------------------------------------
\* A Buffer is a sequence of bytes; offsets are the code's, counted from 0.
\* A value that may be null or undefined is <<>> when it is, <<v>> otherwise.
None == <<>>

Some(v) == <<v>>

OP_FALSE == 0
OP_IF == 99
OP_ENDIF == 104
OP_PUSHDATA1 == 76
OP_PUSHDATA2 == 77
OP_PUSHDATA4 == 78
OP_PUSHNUM_NEG1 == 79
OP_PUSHNUM_1 == 81
OP_PUSHNUM_16 == 96

\* Buffer.from('ord', 'utf8')
ORD_MARKER == <<111, 114, 100>>

Tag == [ContentType |-> 1, Pointer |-> 2, Parent |-> 3, Metadata |-> 5,
        Metaprotocol |-> 7, ContentEncoding |-> 9, Delegate |-> 11]

\* script[offset]
ByteAt(script, offset) == script[offset + 1]

\* script.subarray(start, end): end is clamped to the length of the buffer.
subarray(script, start, end) ==
    SubSeq(script, start + 1, IF end > Len(script) THEN Len(script) ELSE end)

\* script.readUInt16LE(offset), script.readUInt32LE(offset)
RECURSIVE readUIntLE(_, _, _)
readUIntLE(script, offset, bytes) ==
    IF bytes = 0 THEN 0
    ELSE ByteAt(script, offset) + 256 * readUIntLE(script, offset + 1, bytes - 1)

\* Buffer.concat(chunks)
RECURSIVE concat(_)
concat(chunks) ==
    IF chunks = <<>> THEN <<>> ELSE Head(chunks) \o concat(Tail(chunks))

\* value.toString('utf8'): a string is the sequence of its code points; a
\* byte below 0x80 is the code point itself, a byte that starts no valid
\* sequence becomes U+FFFD.
toStringUtf8(value) ==
    [k \in 1 .. Len(value) |-> IF value[k] < 128 THEN value[k] ELSE 65533]

\* Buffer.from(string, 'utf8')
RECURSIVE fromUtf8(_)
fromUtf8(string) ==
    IF string = <<>> THEN <<>>
    ELSE (IF Head(string) < 128 THEN <<Head(string)>> ELSE <<239, 191, 189>>)
             \o fromUtf8(Tail(string))

\* readPush with the PUSHBYTES branch taking whatever bytes are left.
readPushOverrun(script, offset) ==
    LET Push(header, len) ==
            LET end == offset + header + len
            IN IF end > Len(script) THEN None
               ELSE Some([data |-> subarray(script, offset + header, end),
                          nextOffset |-> end])
    IN IF offset >= Len(script) THEN None
       ELSE LET opcode == ByteAt(script, offset)
            IN IF opcode = OP_FALSE
                   THEN Some([data |-> <<>>, nextOffset |-> offset + 1])
               ELSE IF opcode >= 1 /\ opcode <= 75
                   THEN Some([data |-> subarray(script, offset + 1, offset + 1 + opcode),
                              nextOffset |-> offset + 1 + opcode])
               ELSE IF opcode = OP_PUSHDATA1
                   THEN IF offset + 2 > Len(script) THEN None
                        ELSE Push(2, ByteAt(script, offset + 1))
               ELSE IF opcode = OP_PUSHDATA2
                   THEN IF offset + 3 > Len(script) THEN None
                        ELSE Push(3, readUIntLE(script, offset + 1, 2))
               ELSE IF opcode = OP_PUSHDATA4
                   THEN IF offset + 5 > Len(script) THEN None
                        ELSE Push(5, readUIntLE(script, offset + 1, 4))
               ELSE IF opcode = OP_PUSHNUM_NEG1
                   THEN Some([data |-> <<129>>, nextOffset |-> offset + 1])
               ELSE IF opcode >= OP_PUSHNUM_1 /\ opcode <= OP_PUSHNUM_16
                   THEN Some([data |-> <<opcode - 80>>, nextOffset |-> offset + 1])
               ELSE None

readPush(script, offset) ==
    LET Push(header, len) ==
            LET end == offset + header + len
            IN IF end > Len(script) THEN None
               ELSE Some([data |-> subarray(script, offset + header, end),
                          nextOffset |-> end])
    IN IF offset >= Len(script) THEN None
       ELSE LET opcode == ByteAt(script, offset)
            IN IF opcode = OP_FALSE
                   THEN Some([data |-> <<>>, nextOffset |-> offset + 1])
               ELSE IF opcode >= 1 /\ opcode <= 75
                   THEN Push(1, opcode)
               ELSE IF opcode = OP_PUSHDATA1
                   THEN IF offset + 2 > Len(script) THEN None
                        ELSE Push(2, ByteAt(script, offset + 1))
               ELSE IF opcode = OP_PUSHDATA2
                   THEN IF offset + 3 > Len(script) THEN None
                        ELSE Push(3, readUIntLE(script, offset + 1, 2))
               ELSE IF opcode = OP_PUSHDATA4
                   THEN IF offset + 5 > Len(script) THEN None
                        ELSE Push(5, readUIntLE(script, offset + 1, 4))
               ELSE IF opcode = OP_PUSHNUM_NEG1
                   THEN Some([data |-> <<129>>, nextOffset |-> offset + 1])
               ELSE IF opcode >= OP_PUSHNUM_1 /\ opcode <= OP_PUSHNUM_16
                   THEN Some([data |-> <<opcode - 80>>, nextOffset |-> offset + 1])
               ELSE None

\* The fields of parsePayloads before the walk.
NoFields ==
    [contentType |-> <<>>, pointer |-> None, parent |-> None, metadataChunks |-> None,
     metaprotocol |-> None, contentEncoding |-> None, delegate |-> None, bodyStart |-> -1]

\* The for loop with a multi-byte tag payload skipping one payload, not its pair.
RECURSIVE walkPayloadsSkipOne(_, _, _)
walkPayloadsSkipOne(payloads, idx, f) ==
    IF ~(idx < Len(payloads)) THEN f
    ELSE LET tagPayload == payloads[idx + 1]
         IN IF Len(tagPayload) = 0 THEN [f EXCEPT !.bodyStart = idx + 1]
            ELSE IF Len(tagPayload) # 1 THEN walkPayloadsSkipOne(payloads, idx + 1, f)
            ELSE IF idx + 1 >= Len(payloads) THEN f
            ELSE LET tag == tagPayload[1]
                     value == payloads[idx + 2]
                 IN walkPayloadsSkipOne(payloads, idx + 2,
                      CASE tag = Tag.ContentType ->
                               IF f.contentType = <<>>
                               THEN [f EXCEPT !.contentType = toStringUtf8(value)] ELSE f
                        [] tag = Tag.Pointer ->
                               IF f.pointer = None
                               THEN [f EXCEPT !.pointer = Some(value)] ELSE f
                        [] tag = Tag.Parent ->
                               IF f.parent = None
                               THEN [f EXCEPT !.parent = Some(value)] ELSE f
                        [] tag = Tag.Metadata ->
                               [f EXCEPT !.metadataChunks =
                                   IF @ = None THEN Some(<<value>>)
                                   ELSE Some(Append(@[1], value))]
                        [] tag = Tag.Metaprotocol ->
                               IF f.metaprotocol = None
                               THEN [f EXCEPT !.metaprotocol = Some(toStringUtf8(value))] ELSE f
                        [] tag = Tag.ContentEncoding ->
                               IF f.contentEncoding = None
                               THEN [f EXCEPT !.contentEncoding = Some(toStringUtf8(value))] ELSE f
                        [] tag = Tag.Delegate ->
                               IF f.delegate = None
                               THEN [f EXCEPT !.delegate = Some(value)] ELSE f
                        [] OTHER -> f)

\* The for loop of parsePayloads from index idx on.
RECURSIVE walkPayloads(_, _, _)
walkPayloads(payloads, idx, f) ==
    IF ~(idx < Len(payloads)) THEN f
    ELSE LET tagPayload == payloads[idx + 1]
         IN IF Len(tagPayload) = 0 THEN [f EXCEPT !.bodyStart = idx + 1]
            ELSE IF Len(tagPayload) # 1 THEN walkPayloads(payloads, idx + 2, f)
            ELSE IF idx + 1 >= Len(payloads) THEN f
            ELSE LET tag == tagPayload[1]
                     value == payloads[idx + 2]
                 IN walkPayloads(payloads, idx + 2,
                      CASE tag = Tag.ContentType ->
                               IF f.contentType = <<>>
                               THEN [f EXCEPT !.contentType = toStringUtf8(value)] ELSE f
                        [] tag = Tag.Pointer ->
                               IF f.pointer = None
                               THEN [f EXCEPT !.pointer = Some(value)] ELSE f
                        [] tag = Tag.Parent ->
                               IF f.parent = None
                               THEN [f EXCEPT !.parent = Some(value)] ELSE f
                        [] tag = Tag.Metadata ->
                               [f EXCEPT !.metadataChunks =
                                   IF @ = None THEN Some(<<value>>)
                                   ELSE Some(Append(@[1], value))]
                        [] tag = Tag.Metaprotocol ->
                               IF f.metaprotocol = None
                               THEN [f EXCEPT !.metaprotocol = Some(toStringUtf8(value))] ELSE f
                        [] tag = Tag.ContentEncoding ->
                               IF f.contentEncoding = None
                               THEN [f EXCEPT !.contentEncoding = Some(toStringUtf8(value))] ELSE f
                        [] tag = Tag.Delegate ->
                               IF f.delegate = None
                               THEN [f EXCEPT !.delegate = Some(value)] ELSE f
                        [] OTHER -> f)

parsePayloads(payloads) ==
    LET f == walkPayloads(payloads, 0, NoFields)
        content ==
            IF f.bodyStart >= 0 /\ f.bodyStart < Len(payloads)
            THEN concat(SubSeq(payloads, f.bodyStart + 1, Len(payloads)))
            ELSE <<>>
    IN IF f.contentType = <<>> /\ Len(content) = 0 THEN None
       ELSE Some([content |-> content,
                  contentType |-> f.contentType,
                  pointer |-> f.pointer,
                  parent |-> f.parent,
                  metadata |-> IF f.metadataChunks = None THEN None
                               ELSE Some(concat(f.metadataChunks[1])),
                  metaprotocol |-> f.metaprotocol,
                  contentEncoding |-> f.contentEncoding,
                  delegate |-> f.delegate])

\* The inner while loop of extractEnvelope.
RECURSIVE collectPayloads(_, _, _)
collectPayloads(script, i, payloads) ==
    IF ~(i < Len(script)) THEN payloads
    ELSE IF ByteAt(script, i) = OP_ENDIF THEN payloads
    ELSE LET push == readPush(script, i)
         IN IF push = None THEN payloads
            ELSE collectPayloads(script, push[1].nextOffset, Append(payloads, push[1].data))

\* The outer while loop of extractEnvelope from offset i on.
RECURSIVE scanEnvelope(_, _)
scanEnvelope(script, i) ==
    IF ~(i < Len(script) - 1) THEN None
    ELSE IF ByteAt(script, i) # OP_FALSE \/ ByteAt(script, i + 1) # OP_IF
        THEN scanEnvelope(script, i + 1)
    ELSE LET markerPush == readPush(script, i + 2)
         IN IF \/ markerPush = None
               \/ Len(markerPush[1].data) # 3
               \/ markerPush[1].data # ORD_MARKER
            THEN scanEnvelope(script, i + 2)
            ELSE parsePayloads(collectPayloads(script, markerPush[1].nextOffset, <<>>))

\* Nothing in the body throws, so the catch clause is never entered.
extractEnvelope(script) == scanEnvelope(script, 0)

RECURSIVE parseInscription(_)
parseInscription(items) ==
    IF items = <<>> THEN None
    ELSE LET envelope == extractEnvelope(Head(items))
         IN IF envelope # None THEN envelope ELSE parseInscription(Tail(items))

\* ---------------------------------------------------------------------
\* Witnesses handed to the parser (SpecParse)
\* ---------------------------------------------------------------------
\* Most body chunks, extra fields and witness items of one input.
MaxChunks == 2
MaxExtraFields == 2
MaxItems == 2

SeqsUpTo(S, n) == UNION {[1 .. k -> S] : k \in 0 .. n}

\* The push the envelope builder of the parser tests writes for a value.
PushData(data) ==
    IF Len(data) <= 75 THEN <<Len(data)>> \o data
    ELSE IF Len(data) <= 255 THEN <<OP_PUSHDATA1, Len(data)>> \o data
    ELSE <<OP_PUSHDATA2, Len(data) % 256, Len(data) \div 256>> \o data

buildCanonicalEnvelope(contentType, contentChunks, extraFields) ==
    LET ctBuf == fromUtf8(contentType)
    IN <<OP_FALSE, OP_IF, 3>> \o ORD_MARKER
           \o <<1, 1>> \o <<Len(ctBuf)>> \o ctBuf
           \o concat([k \in 1 .. Len(extraFields) |->
                          <<1, extraFields[k].tag>> \o PushData(extraFields[k].value)])
           \o <<OP_FALSE>>
           \o concat([k \in 1 .. Len(contentChunks) |-> PushData(contentChunks[k])])
           \o <<OP_ENDIF>>

\* Content types (strings), field values and body chunks (buffers), and the
\* tags of extra fields: content type, pointer and metadata.
ContentTypes == {<<>>, <<97>>, <<98>>}

Values == {<<>>, <<97>>}

ExtraFields == [tag : {Tag.ContentType, Tag.Pointer, Tag.Metadata}, value : Values]

\* What follows the body of an envelope that is cut short: pushes of every
\* opcode with and without their data, and bytes that are no push.
Tails ==
    {<<1>>, <<2, 120>>, <<OP_PUSHDATA1>>, <<OP_PUSHDATA1, 2, 120>>, <<OP_PUSHDATA1, 1, 120>>,
     <<OP_PUSHDATA2, 1>>, <<OP_PUSHDATA2, 2, 0, 120>>, <<OP_PUSHDATA2, 1, 0, 120>>,
     <<OP_PUSHDATA4, 1, 0, 0>>, <<OP_PUSHDATA4, 2, 0, 0, 0, 120>>,
     <<OP_PUSHDATA4, 1, 0, 0, 0, 120>>, <<OP_PUSHNUM_NEG1>>, <<OP_PUSHNUM_1>>,
     <<OP_PUSHNUM_16>>, <<97>>}

\* Candidate framings of one witness item: two valid envelopes, an envelope
\* with neither content type nor body, a framing whose marker is not "ord",
\* and a script without framing.
Candidates ==
    {buildCanonicalEnvelope(<<97>>, <<>>, <<>>),
     buildCanonicalEnvelope(<<>>, <<(<<98>>)>>, <<>>),
     buildCanonicalEnvelope(<<>>, <<>>, <<>>),
     <<OP_FALSE, OP_IF, 3, 111, 114, 120>>,
     <<OP_ENDIF>>}

StackItems == Candidates \cup {a \o b : a \in Candidates, b \in Candidates}

\* Most payloads of an envelope made of payloads.
MaxPayloads == 4

\* Payloads: the separator, the tags of content type and pointer, an
\* unknown tag, a value and a payload of two bytes.
Payloads == {<<>>, <<1>>, <<2>>, <<4>>, <<97>>, <<1, 2>>}

\* The envelope that pushes the given payloads after the marker.
envelopeOf(payloads) ==
    <<OP_FALSE, OP_IF, 3>> \o ORD_MARKER
        \o concat([k \in 1 .. Len(payloads) |-> PushData(payloads[k])])
        \o <<OP_ENDIF>>

\* The inputs: a canonical envelope, a canonical envelope cut after `cut`
\* bytes, a canonical envelope whose OP_ENDIF is replaced by a tail, a
\* stack of items, and an envelope of arbitrary payloads.
ParserInputs ==
    {[kind |-> "canonical", contentType |-> ct, contentChunks |-> ch, extraFields |-> ex,
      items |-> <<buildCanonicalEnvelope(ct, ch, ex)>>] :
        ct \in ContentTypes, ch \in SeqsUpTo(Values, MaxChunks),
        ex \in SeqsUpTo(ExtraFields, MaxExtraFields)}
    \cup
    UNION {{[kind |-> "cut", contentType |-> ct, contentChunks |-> ch, extraFields |-> ex,
             cut |-> n,
             items |-> <<subarray(buildCanonicalEnvelope(ct, ch, ex), 0, n)>>] :
                n \in 0 .. Len(buildCanonicalEnvelope(ct, ch, ex)) - 1} :
        ct \in ContentTypes, ch \in SeqsUpTo(Values, MaxChunks),
        ex \in SeqsUpTo(ExtraFields, 1)}
    \cup
    {[kind |-> "tail", contentType |-> ct, contentChunks |-> ch, extraFields |-> <<>>,
      tail |-> t,
      items |-> <<subarray(buildCanonicalEnvelope(ct, ch, <<>>), 0,
                           Len(buildCanonicalEnvelope(ct, ch, <<>>)) - 1) \o t>>] :
        ct \in ContentTypes, ch \in SeqsUpTo(Values, MaxChunks), t \in Tails}
    \cup
    {[kind |-> "stack", items |-> w] : w \in SeqsUpTo(StackItems, MaxItems)}
    \cup
    {[kind |-> "payloads", payloads |-> ps, items |-> <<envelopeOf(ps)>>] :
        ps \in SeqsUpTo(Payloads, MaxPayloads)}

\* The envelope extractEnvelope finds when its scan stands at offset p of the
\* script: the framing, the marker, the payloads up to OP_ENDIF, parsed.
EnvelopeAt(script, p) ==
    IF ~(p < Len(script) - 1) THEN None
    ELSE IF ByteAt(script, p) # OP_FALSE \/ ByteAt(script, p + 1) # OP_IF THEN None
    ELSE LET markerPush == readPush(script, p + 2)
         IN IF markerPush = None THEN None
            ELSE IF markerPush[1].data # ORD_MARKER THEN None
            ELSE parsePayloads(collectPayloads(script, markerPush[1].nextOffset, <<>>))

\* The payloads the builder pushes after the marker, in order.
CanonicalPayloads(contentType, contentChunks, extraFields) ==
    <<(<<Tag.ContentType>>), fromUtf8(contentType)>>
        \o concat([k \in 1 .. Len(extraFields) |->
                       <<(<<extraFields[k].tag>>), extraFields[k].value>>])
        \o <<(<<>>)>>
        \o contentChunks

\* The longest prefix of the payloads whose pushes fit in the given number of
\* bytes; each push of the builder is one opcode byte and the data.
RECURSIVE PushesWithin(_, _)
PushesWithin(payloads, bytes) ==
    IF payloads = <<>> THEN <<>>
    ELSE IF 1 + Len(Head(payloads)) > bytes THEN <<>>
    ELSE <<Head(payloads)>> \o PushesWithin(Tail(payloads), bytes - 1 - Len(Head(payloads)))

\* OrdinalsParser.parseInscription(witness); op.id keeps how the witness was
\* made.
ParseInscription ==
    /\ op.name = "none"
    /\ op' = OpOf("parseInscription", op.id, -1, Null, "ok", parseInscription(witness))
    /\ UNCHANGED <<claims, indexerVars, envVars, workerVars, lifeVars, contractVars, witness, registry, retrying, second>>

InitParse ==
    /\ \E input \in ParserInputs :
          /\ witness = input.items
          /\ op = OpOf("none", input, -1, Null, "none", None)
    /\ claims = <<>>
    /\ inscriptions = {}
    /\ currentHeight = StartHeight
    /\ lastBlockHash = EmptyHash
    /\ inscriptionCounter = 0
    /\ fork = Main
    /\ eventsLeft = 0
    /\ wPc = "idle"
    /\ wBatch = <<>>
    /\ wAttested = 0
    /\ pendingUtxos = Undefined
    /\ wCycle = <<>>
    /\ broadcasts = [id \in DOMAIN itemsByInscriptionId |-> 0]
    /\ isRunning = TRUE
    /\ poolEnded = FALSE
    /\ ixPc = "idle"
    /\ nft = Deployed
    /\ mempool = <<>>
    /\ mintLog = <<>>
    /\ registry = Loaded
    /\ retrying = NoRetry
    /\ second = NoSecond

NextParse == ParseInscription

SpecParse == InitParse /\ [][NextParse]_vars

\* ---------------------------------------------------------------------
\* CollectionRegistry loaded, reloaded and looked up (SpecRegistry)
\* ---------------------------------------------------------------------
\* Most items of an input array.
MaxCollection == 3

ItemIds == {"", "x1", "x2", Stranger}

RegistryLoadItems ==
    \E items \in SeqsUpTo(ItemIds, MaxCollection) :
        /\ registry' = loadItemsInto(registry, items)
        /\ op' = OpOf("loadItems", items, -1, Null, "ok",
                      Cardinality(DOMAIN registry'.itemsByInscriptionId))
        /\ UNCHANGED <<claims, indexerVars, envVars, workerVars, lifeVars, contractVars, witness, retrying, second>>

RegistryGetByInscriptionId ==
    \E id \in ItemIds :
        /\ op' = OpOf("getByInscriptionId", id, -1, Null, "ok",
                      registryGetByInscriptionId(registry, id))
        /\ UNCHANGED <<claims, indexerVars, envVars, workerVars, lifeVars, contractVars, witness, registry, retrying, second>>

RegistryGetByTokenId ==
    \E tokenId \in 0 .. MaxCollection :
        /\ op' = OpOf("getByTokenId", Null, tokenId, Null, "ok", getByTokenId(registry, tokenId))
        /\ UNCHANGED <<claims, indexerVars, envVars, workerVars, lifeVars, contractVars, witness, registry, retrying, second>>

\* A registry is constructed with empty maps.
InitRegistry ==
    /\ registry = NoItems
    /\ retrying = NoRetry
    /\ second = NoSecond
    /\ claims = <<>>
    /\ op = NoOp
    /\ inscriptions = {}
    /\ currentHeight = StartHeight
    /\ lastBlockHash = EmptyHash
    /\ inscriptionCounter = 0
    /\ fork = Main
    /\ eventsLeft = 0
    /\ wPc = "idle"
    /\ wBatch = <<>>
    /\ wAttested = 0
    /\ pendingUtxos = Undefined
    /\ wCycle = <<>>
    /\ broadcasts = [id \in DOMAIN itemsByInscriptionId |-> 0]
    /\ isRunning = TRUE
    /\ poolEnded = FALSE
    /\ ixPc = "idle"
    /\ nft = Deployed
    /\ mempool = <<>>
    /\ mintLog = <<>>
    /\ witness = <<>>

NextRegistry ==
    \/ RegistryLoadItems
    \/ RegistryGetByInscriptionId
    \/ RegistryGetByTokenId

SpecRegistry == InitRegistry /\ [][NextRegistry]_vars

\* ---------------------------------------------------------------------
\* The worker with receipts that may carry no new outputs (SpecUtxo)
\* ---------------------------------------------------------------------
\* A receipt's newUTXOs is the name of its transaction when the transaction
\* has outputs for the wallet, and EmptyUtxos when the list is empty.
EmptyUtxos == "[]"

\* The utxos member of the parameters of sendTransaction.
paramsUtxos(pending) == pending

\* attestClaim as in WorkerAttestOk, with a receipt whose newUTXOs is empty.
WorkerAttestOkNoOutputs ==
    /\ wPc = "loop"
    /\ wBatch # <<>>
    /\ LET claim == Head(wBatch) IN
       /\ Bech32Ok(claim.senderAddress)
       /\ attestBurnRevert(nft, AttestCall(claim)) = ""
       /\ \E t \in AttestTxids :
             /\ pendingUtxos' = EmptyUtxos
             /\ claims' = markAttested(claims, claim.inscriptionId, t)
             /\ op' = OpOf("attestClaim", claim.inscriptionId, -1, t, "attested", NullRet)
       /\ broadcasts' = [broadcasts EXCEPT ![claim.inscriptionId] = @ + 1]
       /\ mempool' = Broadcast(mempool, AttestCall(claim))
    /\ wAttested' = wAttested + 1
    /\ wBatch' = Tail(wBatch)
    /\ UNCHANGED <<wPc, wCycle, indexerVars, envVars, lifeVars, nft, mintLog, witness, registry, retrying, second>>

NextUtxo ==
    \/ WorkerStart
    \/ WorkerAttestOk
    \/ WorkerAttestOkNoOutputs
    \/ WorkerAttestFail
    \/ WorkerCrashAfterBroadcast
    \/ WorkerEnd

SpecUtxo == InitMint /\ [][NextUtxo]_vars

\* ---------------------------------------------------------------------
\* The worker over a queue longer than its cap, with POST /bridge/retry-failed
\* called at any time, and worker cycles that keep running (FairSpecStarve)
\* ---------------------------------------------------------------------
\* The simulation of attestBurn reverts on every attempt for the oldest
\* claims of the queue, as many as one cycle takes (result.revert is set,
\* attestClaim marks the claim failed).  The claims behind them attest.
AlwaysReverts(id) == id <= MAX_ATTESTATIONS_PER_CYCLE

WorkerCycleStep ==
    \/ WorkerStart
    \/ WorkerAttestOk /\ op'.txid = "t1" /\ ~AlwaysReverts(Head(wBatch).inscriptionId)
    \/ WorkerAttestFail /\ op'.outcome = "revert" /\ AlwaysReverts(Head(wBatch).inscriptionId)
    \/ WorkerEnd

\* POST /bridge/retry-failed arrives between two cycles of the worker.
RetryBetweenCycles == wPc = "idle" /\ ApiRetryFailedClaims

NextStarve ==
    \/ WorkerCycleStep
    \/ RetryBetweenCycles

SpecStarve == InitCap /\ [][NextStarve]_vars

\* setInterval calls processConfirmedClaims again and again, and the awaits
\* inside it resolve: a step of the worker that moves its position is taken.
FairSpecStarve == SpecStarve /\ WF_<<wPc, wBatch>>(WorkerCycleStep)

\* ---------------------------------------------------------------------
\* Two requests POST /bridge/retry-failed and a worker cycle, interleaved at
\* the awaits of retryFailedClaims (SpecRetry)
\* ---------------------------------------------------------------------
\* Most claims of the queue, and most broadcasts of one claim.
MaxRetryQueue == 2
MaxRebroadcasts == 2

\* const failed = await this.db.getByStatus('failed')
RetryRead(r) ==
    /\ retrying[r].pc = "idle"
    /\ retrying' = [retrying EXCEPT ![r] =
           [pc |-> "loop", failed |-> getByStatus(claims, "failed", DEFAULT_LIMIT), retried |-> 0]]
    /\ op' = OpOf("retryFailedClaims", Null, r, Null, "read", NullRet)
    /\ UNCHANGED <<claims, indexerVars, envVars, workerVars, lifeVars, contractVars, witness, registry, second>>

\* One iteration of the loop: await this.db.updateStatus(id, 'confirmed').
RetryWrite(r) ==
    /\ retrying[r].pc = "loop"
    /\ retrying[r].failed # <<>>
    /\ LET st == RetryStep([store |-> claims, ret |-> retrying[r].retried], Head(retrying[r].failed)) IN
       /\ claims' = st.store
       /\ retrying' = [retrying EXCEPT ![r].failed = Tail(@), ![r].retried = st.ret]
       /\ op' = OpOf("retryFailedClaims", Head(retrying[r].failed).inscriptionId, r, Null, "write", NullRet)
    /\ UNCHANGED <<indexerVars, envVars, workerVars, lifeVars, contractVars, witness, registry, second>>

\* The loop is over: return retried.
RetryReturn(r) ==
    /\ retrying[r].pc = "loop"
    /\ retrying[r].failed = <<>>
    /\ retrying' = [retrying EXCEPT ![r] = IdleRetry]
    /\ op' = OpOf("retryFailedClaims", Null, r, Null, "ok", retrying[r].retried)
    /\ UNCHANGED <<claims, indexerVars, envVars, workerVars, lifeVars, contractVars, witness, registry, second>>

InitRetry ==
    /\ \E n \in 0 .. MaxRetryQueue : \E status \in {"confirmed", "failed"} :
          claims = QueueOf(n, status)
    /\ op = NoOp
    /\ inscriptions = {}
    /\ currentHeight = StartHeight
    /\ lastBlockHash = EmptyHash
    /\ inscriptionCounter = 0
    /\ fork = Main
    /\ wPc = "idle"
    /\ wBatch = <<>>
    /\ wAttested = 0
    /\ pendingUtxos = Undefined
    /\ wCycle = <<>>
    /\ broadcasts = [id \in 1 .. MaxBatchQueue |-> 0]
    /\ isRunning = TRUE
    /\ poolEnded = FALSE
    /\ ixPc = "idle"
    /\ nft = Deployed
    /\ mempool = <<>>
    /\ mintLog = <<>>
    /\ witness = <<>>
    /\ registry = Loaded
    /\ retrying = NoRetry
    /\ second = NoSecond
    /\ eventsLeft = 0

NextRetry ==
    \/ \E r \in Requests : RetryRead(r)
    \/ \E r \in Requests : RetryWrite(r)
    \/ \E r \in Requests : RetryReturn(r)
    \/ WorkerStart
    \/ WorkerAttestOk /\ op'.txid = "t1" /\ broadcasts'[op'.id] <= MaxRebroadcasts
    \/ WorkerAttestFail /\ op'.outcome = "revert"
    \/ WorkerEnd

SpecRetry == InitRetry /\ [][NextRetry]_vars

\* ---------------------------------------------------------------------
\* processConfirmedClaims called again on the same worker while a call is
\* still in its loop (SpecOverlap).  The method has no guard against it.
\* ---------------------------------------------------------------------
SecondStart ==
    /\ second.pc = "idle"
    /\ LET ready == getClaimsReadyForAttestation(claims) IN
       IF Len(ready) = 0
       THEN /\ op' = OpOf("processConfirmedClaims", Null, 2, Null, "empty", 0)
            /\ UNCHANGED second
       ELSE /\ second' = [second EXCEPT !.pc = "loop",
                                        !.batch = Slice(ready, MAX_ATTESTATIONS_PER_CYCLE),
                                        !.attested = 0]
            /\ op' = OpOf("processConfirmedClaims", Null, 2, Null, "started", NullRet)
    /\ UNCHANGED <<claims, indexerVars, envVars, workerVars, lifeVars, contractVars, witness, registry, retrying>>

SecondAttestOk ==
    /\ second.pc = "loop"
    /\ second.batch # <<>>
    /\ LET claim == Head(second.batch) IN
       /\ Bech32Ok(claim.senderAddress)
       /\ attestBurnRevert(nft, AttestCall(claim)) = ""
       /\ \E t \in AttestTxids :
             /\ pendingUtxos' = t
             /\ claims' = markAttested(claims, claim.inscriptionId, t)
             /\ op' = OpOf("attestClaim", claim.inscriptionId, 2, t, "attested", NullRet)
       /\ broadcasts' = [broadcasts EXCEPT ![claim.inscriptionId] = @ + 1]
       /\ mempool' = Broadcast(mempool, AttestCall(claim))
       /\ second' = [second EXCEPT !.batch = Tail(@),
                                   !.attested = @ + 1,
                                   !.sent[claim.inscriptionId] = @ + 1]
    /\ UNCHANGED <<wPc, wBatch, wAttested, wCycle, indexerVars, envVars, lifeVars, nft, mintLog, witness, registry, retrying>>

SecondAttestFail ==
    /\ second.pc = "loop"
    /\ second.batch # <<>>
    /\ LET claim == Head(second.batch) IN
       /\ \E kind \in {"conversion", "revert", "simulate", "send"} :
             /\ (kind = "conversion") <=> ~Bech32Ok(claim.senderAddress)
             /\ op' = OpOf("attestClaim", claim.inscriptionId, 2, Null, kind, NullRet)
       /\ claims' = markFailed(claims, claim.inscriptionId)
    /\ second' = [second EXCEPT !.batch = Tail(@)]
    /\ UNCHANGED <<indexerVars, envVars, workerVars, lifeVars, contractVars, witness, registry, retrying>>

SecondEnd ==
    /\ second.pc = "loop"
    /\ second.batch = <<>>
    /\ second' = [second EXCEPT !.pc = "idle"]
    /\ op' = OpOf("processConfirmedClaims", Null, 2, Null, "returned", second.attested)
    /\ UNCHANGED <<claims, indexerVars, envVars, workerVars, lifeVars, contractVars, witness, registry, retrying>>

NextOverlap ==
    \/ WorkerStart
    \/ WorkerAttestOk /\ op'.txid = "t1"
    \/ WorkerAttestFail /\ op'.outcome = "revert"
    \/ WorkerEnd
    \/ SecondStart
    \/ SecondAttestOk /\ op'.txid = "t1"
    \/ SecondAttestFail /\ op'.outcome = "revert"
    \/ SecondEnd

SpecOverlap == InitRetry /\ [][NextOverlap]_vars

\* ---------------------------------------------------------------------
\* The indexer loop keeps running and its fetches and store calls
\* eventually succeed (FairSpec)
\* ---------------------------------------------------------------------
FairSpec == Spec /\ WF_vars(IxReorg \/ IxBlockOk)

\* ---------------------------------------------------------------------
\* Helpers of the properties
\* ---------------------------------------------------------------------
HasRow(store, id) == \E i \in DOMAIN store : store[i].inscriptionId = id

RowOf(store, id) == store[CHOOSE i \in DOMAIN store : store[i].inscriptionId = id]

RowIds(store) == {store[i].inscriptionId : i \in DOMAIN store}

ListedTransitions ==
    {<<"detected", "confirmed">>, <<"confirmed", "attested">>,
     <<"confirmed", "failed">>, <<"failed", "confirmed">>}

\* ---------------------------------------------------------------------
\* C1
\* ---------------------------------------------------------------------
\* C1: under any sequence of the public operations every status is one of
\* the five statuses and every status change of an existing claim is one
\* of detected->confirmed, confirmed->attested, confirmed->failed,
\* failed->confirmed (so nothing enters detected from another status).
C1_ClaimFsm ==
    [][ /\ \A i \in DOMAIN claims' : claims'[i].status \in Statuses
        /\ \A id \in RowIds(claims) \cap RowIds(claims') :
              RowOf(claims, id).status # RowOf(claims', id).status
                => <<RowOf(claims, id).status, RowOf(claims', id).status>> \in ListedTransitions
      ]_vars

\* ---------------------------------------------------------------------
\* C2
\* ---------------------------------------------------------------------
\* C2: attested is terminal: a claim that is attested keeps its status and
\* its attest_txid in every later step.
C2_AttestedTerminal ==
    [][ \A id \in RowIds(claims) :
            RowOf(claims, id).status = "attested"
              => /\ HasRow(claims', id)
                 /\ RowOf(claims', id).status = "attested"
                 /\ RowOf(claims', id).attestTxid = RowOf(claims, id).attestTxid
      ]_vars

\* ---------------------------------------------------------------------
\* C4
\* ---------------------------------------------------------------------
IsRolledBack(c, H) == c.status = "detected" /\ c.burnBlockHeight >= H

\* C4: handleReorg(H) deletes exactly the detected claims with
\* burn_block_height >= H, returns their count, and leaves every other
\* claim (any other status at any height, detected below H) unchanged.
C4_ReorgDeletesOnlyDetected ==
    [][ op'.name = "handleReorg" =>
          /\ \A i \in DOMAIN claims :
                IF IsRolledBack(claims[i], op'.h)
                THEN ~HasRow(claims', claims[i].inscriptionId)
                ELSE /\ HasRow(claims', claims[i].inscriptionId)
                     /\ RowOf(claims', claims[i].inscriptionId) = claims[i]
          /\ RowIds(claims') \subseteq RowIds(claims)
          /\ op'.ret = Cardinality({i \in DOMAIN claims : IsRolledBack(claims[i], op'.h)})
      ]_vars

\* A reorg that deleted a claim and kept a committed claim at a height >= H.
C4_Witness ==
    /\ op.name = "handleReorg"
    /\ op.ret >= 1
    /\ \E i \in DOMAIN claims :
          /\ claims[i].status \in {"underpaid", "confirmed", "attested", "failed"}
          /\ claims[i].burnBlockHeight >= op.h

\* ---------------------------------------------------------------------
\* C9
\* ---------------------------------------------------------------------
\* C9: processBurn appends a claim (with the registry's token id) only when
\* the id is in the registry and unclaimed; otherwise it returns null and
\* leaves the store unchanged.  The store never holds two claims of one
\* inscription id and every token_id is the registry's.
C9_ProcessBurnOnce ==
    /\ [](\A i, j \in DOMAIN claims :
              claims[i].inscriptionId = claims[j].inscriptionId => i = j)
    /\ [](\A i \in DOMAIN claims :
              /\ hasInscription(claims[i].inscriptionId)
              /\ claims[i].tokenId = itemsByInscriptionId[claims[i].inscriptionId])
    /\ [][ op'.name = "processBurn" =>
             IF hasInscription(op'.id) /\ ~HasRow(claims, op'.id)
             THEN /\ Len(claims') = Len(claims) + 1
                  /\ SubSeq(claims', 1, Len(claims)) = claims
                  /\ claims'[Len(claims')].inscriptionId = op'.id
                  /\ claims'[Len(claims')].burnBlockHeight = op'.h
                  /\ op'.ret = itemsByInscriptionId[op'.id]
             ELSE /\ claims' = claims
                  /\ op'.ret = NullRet
         ]_vars

\* A second burn of an inscription whose claim is already attested was rejected.
C9_Witness ==
    /\ op.name = "processBurn"
    /\ op.ret = NullRet
    /\ HasRow(claims, op.id)
    /\ RowOf(claims, op.id).status = "attested"
    /\ RowOf(claims, op.id).burnBlockHeight # op.h

\* ---------------------------------------------------------------------
\* C3
\* ---------------------------------------------------------------------
\* C3: for each inscription id at most one attestBurn broadcast ever
\* returns a receipt.
C3_AtMostOnceBroadcast ==
    \A id \in DOMAIN broadcasts : broadcasts[id] <= 1

\* ---------------------------------------------------------------------
\* C5
\* ---------------------------------------------------------------------
\* C5: once the indexer has handled a reorg at height H and the block source
\* no longer changes branch (and nothing fails or restarts any more),
\* current_height eventually becomes H + 1.
C5_ReorgProgress ==
    \A H \in 0 .. NumBlocks - 1 :
        (op.name = "processNextBlock" /\ op.outcome = "reorg" /\ op.h = H /\ eventsLeft = 0)
            ~> (currentHeight = H + 1)

\* ---------------------------------------------------------------------
\* C6
\* ---------------------------------------------------------------------
Canonical(h, hash) == hash = BlockHash(h, fork)

\* C6: right after reorg handling no stored inscription and no detected
\* claim carries the hash of a block that is not on the canonical chain.
C6_NoStaleAfterReorg ==
    (op.name = "processNextBlock" /\ op.outcome = "reorg") =>
        /\ \A r \in inscriptions : Canonical(r.blockHeight, r.blockHash)
        /\ \A i \in DOMAIN claims :
              claims[i].status = "detected"
                => Canonical(claims[i].burnBlockHeight, claims[i].burnBlockHash)

\* ---------------------------------------------------------------------
\* C7
\* ---------------------------------------------------------------------
\* C7: the stored inscription numbers are exactly 0 .. count() - 1.
C7_DenseNumbering ==
    {r.inscriptionNumber : r \in inscriptions} = 0 .. (getCount(inscriptions) - 1)

\* ---------------------------------------------------------------------
\* C8
\* ---------------------------------------------------------------------
\* C8: an inscription of a lower block has a lower number, and no two
\* stored inscriptions share a number.
C8_MonotonicNumbering ==
    \A a, b \in inscriptions :
        /\ a.blockHeight < b.blockHeight => a.inscriptionNumber < b.inscriptionNumber
        /\ a # b => a.inscriptionNumber # b.inscriptionNumber

\* ---------------------------------------------------------------------
\* C10
\* ---------------------------------------------------------------------
Eligible(c, h) == c.status = "detected" /\ h - c.burnBlockHeight >= requiredConfirmations

\* C10: after confirmPendingClaims(h) no detected claim has
\* h - burn_block_height >= required_confirmations, every claim it changed
\* was such a claim and is now confirmed, and it returns their number.
C10_SweepConfirmsAll ==
    [][ op'.name = "confirmPendingClaims" =>
          /\ \A i \in DOMAIN claims' : ~Eligible(claims'[i], op'.h)
          /\ DOMAIN claims' = DOMAIN claims
          /\ \A i \in DOMAIN claims :
                claims'[i] # claims[i]
                  => /\ Eligible(claims[i], op'.h)
                     /\ claims'[i] = [claims[i] EXCEPT !.status = "confirmed"]
          /\ op'.ret = Cardinality({i \in DOMAIN claims : claims'[i] # claims[i]})
      ]_vars

\* ---------------------------------------------------------------------
\* C11
\* ---------------------------------------------------------------------
\* C11: a claim stored as underpaid is never changed or removed by any
\* sweep, retry, rollback or worker step, and no worker batch holds it.
C11_UnderpaidStuck ==
    /\ [](\A k \in DOMAIN wBatch :
              /\ wBatch[k].status # "underpaid"
              /\ HasRow(claims, wBatch[k].inscriptionId)
                    => RowOf(claims, wBatch[k].inscriptionId).status # "underpaid")
    /\ [](\A k \in DOMAIN getClaimsReadyForAttestation(claims) :
              getClaimsReadyForAttestation(claims)[k].status # "underpaid")
    /\ [][ \A i \in DOMAIN claims :
             claims[i].status = "underpaid"
               => /\ HasRow(claims', claims[i].inscriptionId)
                  /\ RowOf(claims', claims[i].inscriptionId) = claims[i]
         ]_vars

\* A sweep high enough for every stored claim promoted another claim and
\* left an underpaid claim with enough confirmations behind.
C11_Witness ==
    /\ op.name = "confirmPendingClaims"
    /\ op.ret >= 1
    /\ \E i \in DOMAIN claims :
          /\ claims[i].status = "underpaid"
          /\ op.h - claims[i].burnBlockHeight >= requiredConfirmations

\* ---------------------------------------------------------------------
\* C12
\* ---------------------------------------------------------------------
\* The transaction of block (h, b) with the given hash.
TxOf(h, b, hash) ==
    LET txs == getBlock(h, b).transactions
    IN txs[CHOOSE k \in DOMAIN txs : txs[k].hash = hash]

\* fee_paid: the value of outputs[1] if it pays the oracle fee address, else 0.
FeePaid(tx) == IF tx.out1Address = ORACLE_FEE_ADDRESS THEN tx.out1Value ELSE 0

ExpectedStatus(tx) ==
    IF BRIDGE_MIN_FEE_SATS > 0 /\ FeePaid(tx) < BRIDGE_MIN_FEE_SATS
    THEN "underpaid" ELSE "detected"

\* C12: with a minimum fee configured, a claim the indexer creates from a
\* burn transaction is underpaid exactly when the fee paid by outputs[1]
\* to the oracle fee address is below the minimum, and detected otherwise.
C12_FeeCheckOnDetection ==
    [][ op'.name = "processNextBlock" =>
          \A i \in DOMAIN claims' :
              ~HasRow(claims, claims'[i].inscriptionId)
                => claims'[i].status =
                     ExpectedStatus(TxOf(claims'[i].burnBlockHeight, fork, claims'[i].burnTxid))
      ]_vars

\* ---------------------------------------------------------------------
\* C13
\* ---------------------------------------------------------------------
\* C13: retryFailedClaims turns every failed claim into confirmed, changes
\* no other claim and returns the number of failed claims, however many
\* claims are failed.
C13_RetryFlipsAll ==
    [][ op'.name = "retryFailedClaims" =>
          /\ DOMAIN claims' = DOMAIN claims
          /\ \A i \in DOMAIN claims :
                claims'[i] = IF claims[i].status = "failed"
                             THEN [claims[i] EXCEPT !.status = "confirmed"]
                             ELSE claims[i]
          /\ op'.ret = Cardinality({i \in DOMAIN claims : claims[i].status = "failed"})
      ]_vars

\* ---------------------------------------------------------------------
\* C14
\* ---------------------------------------------------------------------
\* The confirmed claims of the store, oldest first.
ConfirmedQueue(store) == SelectSeq(store, LAMBDA c : c.status = "confirmed")

\* C14: a cycle takes the first 20 confirmed claims in queue order (all of
\* them when there are fewer), simulates and broadcasts only for the claims
\* it took, one after the other, and leaves every other claim untouched.
C14_PerCycleCap ==
    /\ [](Len(wBatch) <= 20)
    /\ [][ (op'.name = "processConfirmedClaims" /\ op'.outcome = "started") =>
             LET queue == ConfirmedQueue(claims) IN
             /\ wBatch' = SubSeq(queue, 1, IF Len(queue) <= 20 THEN Len(queue) ELSE 20)
             /\ claims' = claims
         ]_vars
    /\ [][ op'.name = "attestClaim" =>
             /\ wBatch # <<>>
             /\ op'.id = Head(wBatch).inscriptionId
             /\ wBatch' = Tail(wBatch)
             /\ \A i \in DOMAIN claims :
                   claims[i].inscriptionId # op'.id
                     => /\ i \in DOMAIN claims'
                        /\ claims'[i] = claims[i]
         ]_vars

\* A cycle has started on a queue of more than 20 confirmed claims.
C14_Witness ==
    /\ op.name = "processConfirmedClaims"
    /\ op.outcome = "started"
    /\ Len(wBatch) = 20
    /\ Len(ConfirmedQueue(claims)) > 20

\* ---------------------------------------------------------------------
\* C15
\* ---------------------------------------------------------------------
FailureKinds == {"conversion", "revert", "send"}

\* A conversion failure, a revert or a broadcast error sets exactly the
\* claim being handled to failed and the loop goes on with the next claim.
FailureIsolatedStep ==
    (op'.name = "attestClaim" /\ op'.outcome \in FailureKinds) =>
        /\ wBatch # <<>>
        /\ op'.id = Head(wBatch).inscriptionId
        /\ DOMAIN claims' = DOMAIN claims
        /\ \A i \in DOMAIN claims :
              claims'[i] = IF claims[i].inscriptionId = op'.id
                           THEN [claims[i] EXCEPT !.status = "failed"]
                           ELSE claims[i]
        /\ wPc' = "loop"
        /\ wBatch' = Tail(wBatch)

Handled == {wCycle[k] : k \in 1 .. (Len(wCycle) - Len(wBatch))}

C16_NeverThrows ==
    op.name = "processConfirmedClaims" =>
        /\ op.outcome # "thrown"
        /\ op.ret # Thrown

\* ---------------------------------------------------------------------
\* C17
\* ---------------------------------------------------------------------
\* The status and attest_txid a claim had before a step; a claim without a
\* row has neither.
StatusBefore(id) == IF HasRow(claims, id) THEN RowOf(claims, id).status ELSE "none"

TxidBefore(id) == IF HasRow(claims, id) THEN RowOf(claims, id).attestTxid ELSE Null

\* C17: a claim enters attested only in the attestClaim step of a running
\* cycle whose broadcast for that claim returned a receipt, and attest_txid
\* is then the receipt's transaction id; attest_txid is written only by a
\* step that sets the status to attested, so it is null for a claim that
\* was never attested.
C17_AttestedOnlyWithReceipt ==
    /\ [](\A i \in DOMAIN claims :
            /\ claims[i].attestTxid # Null => broadcasts[claims[i].inscriptionId] >= 1
            /\ claims[i].status = "attested" => claims[i].attestTxid \in AttestTxids)
    /\ [][ \A i \in DOMAIN claims' :
             LET row == claims'[i]
                 id == row.inscriptionId
             IN /\ (row.status = "attested" /\ StatusBefore(id) # "attested") =>
                      /\ wPc = "loop"
                      /\ wBatch # <<>>
                      /\ Head(wBatch).inscriptionId = id
                      /\ op'.name = "attestClaim"
                      /\ op'.outcome = "attested"
                      /\ op'.id = id
                      /\ op'.txid \in AttestTxids
                      /\ row.attestTxid = op'.txid
                      /\ pendingUtxos' = op'.txid
                      /\ broadcasts'[id] = broadcasts[id] + 1
                /\ row.attestTxid # TxidBefore(id) =>
                      /\ row.status = "attested"
                      /\ StatusBefore(id) # "attested"
         ]_vars

\* A cycle attested a claim with the receipt's transaction id while another
\* claim, never attested, has no attest_txid.
C17_Witness ==
    /\ op.name = "attestClaim"
    /\ op.outcome = "attested"
    /\ HasRow(claims, op.id)
    /\ RowOf(claims, op.id).status = "attested"
    /\ RowOf(claims, op.id).attestTxid = op.txid
    /\ \E i \in DOMAIN claims :
          /\ claims[i].status # "attested"
          /\ claims[i].attestTxid = Null

\* ---------------------------------------------------------------------
\* C18
\* ---------------------------------------------------------------------
\* C18: when a cycle has just started, pendingUtxos is undefined, so its
\* first broadcast is not given the outputs of an earlier cycle.
C18_PendingUtxosPerCycle ==
    (op.name = "processConfirmedClaims" /\ op.outcome = "started") =>
        pendingUtxos = Undefined

\* ---------------------------------------------------------------------
\* C20
\* ---------------------------------------------------------------------
\* Every envelope of every transaction of the block has its inscriptions row.
BlockSaved(ins, block) ==
    \A k \in DOMAIN block.transactions :
        \A index \in 0 .. (block.transactions[k].envelopes - 1) :
            \E r \in ins :
                r.id = [tx |-> block.transactions[k].hash, index |-> index]

\* C20: a processNextBlock that does not complete leaves currentHeight and
\* lastBlockHash as they were, so the same height is fetched again; within
\* a run currentHeight changes only by +1, in the processNextBlock that
\* processed every transaction of the block and whose confirmation sweep
\* returned.
C20_HeightAdvancesOnlyOnSuccess ==
    /\ [][ (op'.name = "processNextBlock" /\ op'.outcome # "advanced") =>
             /\ op'.h = currentHeight
             /\ currentHeight' = currentHeight
             /\ lastBlockHash' = lastBlockHash
         ]_vars
    /\ [][ (op'.name = "processNextBlock" /\ op'.outcome = "advanced") =>
             /\ op'.h = currentHeight
             /\ currentHeight' = currentHeight + 1
             /\ lastBlockHash' = getBlock(currentHeight, fork).hash
             /\ BlockSaved(inscriptions', getBlock(currentHeight, fork))
             /\ op'.ret >= 0
         ]_vars
    /\ [][ (currentHeight' # currentHeight \/ lastBlockHash' # lastBlockHash) =>
             \/ op'.name = "processNextBlock" /\ op'.outcome = "advanced"
             \/ op'.name = "restart"
         ]_vars

\* A block failed at a height reached by earlier successful blocks, and the
\* height is still the one that was attempted.
C20_Witness ==
    /\ op.name = "processNextBlock"
    /\ op.outcome = "error"
    /\ op.h = currentHeight
    /\ currentHeight >= 1
    /\ lastBlockHash = getBlock(currentHeight - 1, fork).hash

\* ---------------------------------------------------------------------
\* C19
\* ---------------------------------------------------------------------
\* C19: the pool is ended only when no block is in flight and no attestation
\* cycle is running, and no block in flight calls the store after that.
C19_CloseAfterDrain ==
    poolEnded =>
        /\ ixPc = "idle"
        /\ wPc = "idle"
        /\ ~(op.name = "processNextBlock" /\ op.outcome \in {"reorg", "error", "advanced"})

\* ---------------------------------------------------------------------
\* C21
\* ---------------------------------------------------------------------
\* C21: a startup or a reorg handling that returned normally did so with a
\* working store: the rows from the reorged height on are gone and
\* inscriptionCounter is the number of rows of the store.
C21_StoreErrorsSurfaced ==
    /\ (op.name = "processNextBlock" /\ op.outcome = "reorg") =>
          /\ inscriptionCounter = getCount(inscriptions)
          /\ \A r \in inscriptions : r.blockHeight < currentHeight
    /\ op.name = "restart" => inscriptionCounter = getCount(inscriptions)

\* ---------------------------------------------------------------------
\* C23
\* ---------------------------------------------------------------------
\* C23: no inscription hash and no token id was accepted twice, the claimed
\* set, the supply and attestCount count the accepted calls, and a call with
\* a claimed hash, a minted token id or at max supply reverts and changes
\* nothing.
C23_MintUniqueness ==
    /\ [](/\ \A i, j \in DOMAIN mintLog :
               i # j => /\ mintLog[i].inscriptionHash # mintLog[j].inscriptionHash
                        /\ mintLog[i].tokenId # mintLog[j].tokenId
          /\ nft.claimed = {mintLog[i].inscriptionHash : i \in DOMAIN mintLog}
          /\ DOMAIN nft.owners = {mintLog[i].tokenId : i \in DOMAIN mintLog}
          /\ nft.totalSupply = Len(mintLog)
          /\ nft.attestCounter = Len(mintLog)
          /\ nft.totalSupply <= MaxSupply)
    /\ [][ (op'.name = "attestBurn"
             /\ \/ op'.id \in nft.claimed
                \/ op'.h \in DOMAIN nft.owners
                \/ nft.totalSupply >= MaxSupply) =>
             /\ op'.outcome # "minted"
             /\ nft' = nft
             /\ mintLog' = mintLog
         ]_vars

\* The deployer's call with a hash already claimed and a fresh token id was
\* reverted while supply was left.
C23_Witness ==
    /\ op.name = "attestBurn"
    /\ op.outcome = "Inscription already bridged"
    /\ op.id \in nft.claimed
    /\ op.h \notin DOMAIN nft.owners
    /\ nft.totalSupply < MaxSupply

\* ---------------------------------------------------------------------
\* C22
\* ---------------------------------------------------------------------
\* The accepted attestBurn calls for inscription id.
MintsOf(id) == {i \in DOMAIN mintLog : mintLog[i].inscriptionHash = hashInscriptionId(id)}

\* C22: whatever the two worker instances and a worker started again after a
\* crash broadcast for a claim, the contract mints for its inscription at most
\* once, with the claim's token id; a transaction for an inscription already
\* bridged reverts and changes nothing in the contract.
C22_MintedAtMostOnce ==
    /\ [](\A k \in DOMAIN claims :
            /\ Cardinality(MintsOf(claims[k].inscriptionId)) <= 1
            /\ Cardinality(MintsOf(claims[k].inscriptionId)) <= broadcasts[claims[k].inscriptionId]
            /\ \A i \in MintsOf(claims[k].inscriptionId) :
                  mintLog[i] = AttestCall(claims[k]))
    /\ [](Len(mintLog) <= Len(claims))
    /\ [][ (op'.name = "attestBurn" /\ op'.id \in nft.claimed) =>
             /\ op'.outcome = "Inscription already bridged"
             /\ nft' = nft
             /\ mintLog' = mintLog
         ]_vars

\* Two transactions were broadcast for one claim; the first was accepted and
\* the second has just been reverted.
C22_Witness ==
    /\ op.name = "attestBurn"
    /\ op.outcome = "Inscription already bridged"
    /\ \E k \in DOMAIN claims :
          /\ op.id = hashInscriptionId(claims[k].inscriptionId)
          /\ broadcasts[claims[k].inscriptionId] >= 2
          /\ Cardinality(MintsOf(claims[k].inscriptionId)) = 1

\* ---------------------------------------------------------------------
\* C24
\* ---------------------------------------------------------------------
\* C24: with the bridge settings, DEPLOYER_MNEMONIC and
\* BRIDGE_CONTRACT_ADDRESS all set, the running plugin submits every
\* confirmed claim for attestation: the claim leaves confirmed for attested
\* or failed.
C24_ConfirmedClaimsSubmitted ==
    \A id \in DOMAIN itemsByInscriptionId :
        (HasRow(claims, id) /\ RowOf(claims, id).status = "confirmed")
            ~> (HasRow(claims, id) /\ RowOf(claims, id).status \in {"attested", "failed"})

\* ---------------------------------------------------------------------
\* C25
\* ---------------------------------------------------------------------
\* The layout the README documents: output 1 pays the oracle fee address,
\* output 2 is the sender's change.
DocumentedLayout(tx) ==
    /\ tx.firstOutputAddress = BurnAddress
    /\ tx.out1Address = ORACLE_FEE_ADDRESS
    /\ tx.out2Address # ""

\* C25: the claim created for a burn with the documented layout has the
\* address of the change output as sender_address, and the worker's
\* attestBurn call mints to it.
C25_SenderIsChangeOutput ==
    [][ op'.name = "checkForBurn" =>
          \A k \in DOMAIN claims' :
              (~HasRow(claims, claims'[k].inscriptionId)
                 /\ DocumentedLayout(LayoutTxOf(claims'[k].burnTxid))) =>
                  /\ claims'[k].senderAddress = LayoutTxOf(claims'[k].burnTxid).out2Address
                  /\ AttestCall(claims'[k]).to =
                        bech32ToAddress(LayoutTxOf(claims'[k].burnTxid).out2Address)
      ]_vars

\* ---------------------------------------------------------------------
\* C26
\* ---------------------------------------------------------------------
\* C26: the stats have a count for each of the five statuses, each the number
\* of claims in that status, and total is the sum of the five.
C26_StatsCountEveryStatus ==
    op.name = "getStats" =>
        /\ \A status \in Statuses :
              /\ status \in DOMAIN op.ret
              /\ op.ret[status] = CountOf(claims, status)
        /\ op.ret.total = SumCounts(claims, Statuses)

\* ---------------------------------------------------------------------
\* C27
\* ---------------------------------------------------------------------
\* C27: parseInscription returns the envelope of the first position, in the
\* first witness item that has one, at which a valid envelope stands, and
\* null only when no position of any item holds a valid envelope.
C27_FirstValidEnvelope ==
    op.name = "parseInscription" =>
        LET ValidAt(k) == {p \in 0 .. Len(witness[k]) : EnvelopeAt(witness[k], p) # None}
            holders == {k \in 1 .. Len(witness) : ValidAt(k) # {}}
        IN IF holders = {} THEN op.ret = None
           ELSE LET k == Min(holders)
                IN op.ret = EnvelopeAt(witness[k], Min(ValidAt(k)))

\* ---------------------------------------------------------------------
\* C28
\* ---------------------------------------------------------------------
\* C28: content_type and pointer take the value of the first field with
\* their tag, an empty value included, and metadata is the concatenation of
\* the values of all metadata fields in order.
C28_FirstValueWins ==
    (op.name = "parseInscription" /\ op.id.kind = "canonical" /\ op.ret # None) =>
        LET fields == <<[tag |-> Tag.ContentType, value |-> fromUtf8(op.id.contentType)]>>
                          \o op.id.extraFields
            Of(tag) == SelectSeq(fields, LAMBDA f : f.tag = tag)
            envelope == op.ret[1]
        IN /\ envelope.contentType = toStringUtf8(Of(Tag.ContentType)[1].value)
           /\ envelope.pointer =
                  (IF Of(Tag.Pointer) = <<>> THEN None ELSE Some(Of(Tag.Pointer)[1].value))
           /\ envelope.metadata =
                  (IF Of(Tag.Metadata) = <<>> THEN None
                   ELSE Some(concat([k \in 1 .. Len(Of(Tag.Metadata)) |->
                                        Of(Tag.Metadata)[k].value])))

\* ---------------------------------------------------------------------
\* C29
\* ---------------------------------------------------------------------
\* C29: parsing the canonical envelope built from a content type, body
\* chunks and extra fields, one of them present, returns an envelope with
\* that content type and the concatenation of the chunks as content.
C29_RoundTrip ==
    (op.name = "parseInscription" /\ op.id.kind = "canonical"
        /\ (op.id.contentType # <<>> \/ concat(op.id.contentChunks) # <<>>)) =>
        /\ op.ret # None
        /\ op.ret[1].contentType = op.id.contentType
        /\ op.ret[1].content = concat(op.id.contentChunks)

\* ---------------------------------------------------------------------
\* C30
\* ---------------------------------------------------------------------
\* The tails whose push declares more data than the script holds.
OverrunTails ==
    {<<1>>, <<2, 120>>, <<OP_PUSHDATA1>>, <<OP_PUSHDATA1, 2, 120>>, <<OP_PUSHDATA2, 1>>,
     <<OP_PUSHDATA2, 2, 0, 120>>, <<OP_PUSHDATA4, 1, 0, 0>>, <<OP_PUSHDATA4, 2, 0, 0, 0, 120>>}

\* C30: no push read from any offset of a witness item ends past the end of
\* the item, and a script that ends inside a push is parsed from the
\* payloads of the pushes before it.
C30_OverrunStopsCollection ==
    op.name = "parseInscription" =>
        /\ \A k \in 1 .. Len(witness) : \A offset \in 0 .. Len(witness[k]) :
              LET push == readPush(witness[k], offset)
              IN push # None =>
                    /\ push[1].nextOffset <= Len(witness[k])
                    /\ push[1].nextOffset > offset
           \* the framing and the marker take six bytes
        /\ op.id.kind = "cut" =>
              op.ret = (IF op.id.cut < 6 THEN None
                        ELSE parsePayloads(PushesWithin(
                                 CanonicalPayloads(op.id.contentType, op.id.contentChunks,
                                                   op.id.extraFields),
                                 op.id.cut - 6)))
        /\ (op.id.kind = "tail" /\ op.id.tail \in OverrunTails) =>
              op.ret = parsePayloads(CanonicalPayloads(op.id.contentType,
                                                       op.id.contentChunks, <<>>))

C30_Witness ==
    /\ op.name = "parseInscription"
    /\ op.id.kind = "tail"
    /\ op.id.tail = <<2, 120>>
    /\ op.ret # None
    /\ op.ret[1].content = <<97>>

\* ---------------------------------------------------------------------
\* C31
\* ---------------------------------------------------------------------
\* C31: right after loadItems the registry holds exactly the items with a
\* non-empty id at the first index of that id, with that index as token id,
\* and nothing of an earlier load; at all times the two lookups agree.
C31_LoadKeepsFirstOccurrences ==
    /\ op.name = "loadItems" =>
          LET items == op.id
              First == {i \in 1 .. Len(items) :
                           items[i] # "" /\ \A j \in 1 .. i - 1 : items[j] # items[i]}
          IN /\ DOMAIN registry.itemsByInscriptionId = {items[i] : i \in First}
             /\ DOMAIN registry.itemsByTokenId = {i - 1 : i \in First}
             /\ \A i \in First :
                   registry.itemsByInscriptionId[items[i]] = [id |-> items[i], tokenId |-> i - 1]
    /\ \A id \in ItemIds :
          LET found == registryGetByInscriptionId(registry, id)
          IN found # <<>> =>
                /\ found[1].id = id
                /\ getByTokenId(registry, found[1].tokenId) = found
    /\ \A tokenId \in 0 .. MaxCollection :
          LET found == getByTokenId(registry, tokenId)
          IN found # <<>> =>
                /\ found[1].tokenId = tokenId
                /\ registryGetByInscriptionId(registry, found[1].id) = found

C31_Witness ==
    /\ op.name = "loadItems"
    /\ op.id = <<"", "x1", "x1">>
    /\ registry.itemsByInscriptionId = ("x1" :> [id |-> "x1", tokenId |-> 1])

\* ---------------------------------------------------------------------
\* C32
\* ---------------------------------------------------------------------
\* C32: when processNextBlock has handled a reorg at height H, no stored
\* inscription is at height H or above, the rows below H are the rows that
\* were below H before, the counter is the number of rows, the height is
\* still H and no row was added.
C32_ReorgPostcondition ==
    [][(op'.name = "processNextBlock" /\ op'.outcome = "reorg") =>
          /\ \A r \in inscriptions' : r.blockHeight < currentHeight
          /\ inscriptions' = {r \in inscriptions : r.blockHeight < currentHeight}
          /\ inscriptionCounter' = Cardinality(inscriptions')
          /\ currentHeight' = currentHeight
          /\ op'.h = currentHeight
      ]_vars

\* ---------------------------------------------------------------------
\* C33
\* ---------------------------------------------------------------------
\* C33: a claim is created detected or underpaid; it leaves detected only
\* in a processNextBlock at a height h >= burn_block_height +
\* required_confirmations, and then becomes confirmed; the sweep of a block
\* at height burn_block_height + required_confirmations - 1 leaves it
\* detected.
C33_NoEarlyConfirmation ==
    [][/\ \A i \in DOMAIN claims' :
             ~HasRow(claims, claims'[i].inscriptionId)
                 => claims'[i].status \in {"detected", "underpaid"}
       /\ \A i \in DOMAIN claims :
             LET c == claims[i] IN
             (c.status = "detected" /\ HasRow(claims', c.inscriptionId)) =>
                 LET d == RowOf(claims', c.inscriptionId) IN
                 /\ d.status # "detected" =>
                       /\ op'.name = "processNextBlock"
                       /\ op'.h = currentHeight
                       /\ op'.h >= c.burnBlockHeight + requiredConfirmations
                       /\ d.status = "confirmed"
                 /\ (op'.name = "processNextBlock" /\ op'.outcome = "advanced"
                        /\ op'.h = c.burnBlockHeight + requiredConfirmations - 1)
                       => d.status = "detected"
      ]_vars

C33_Witness ==
    /\ op.name = "processNextBlock"
    /\ op.outcome = "advanced"
    /\ op.ret >= 1
    /\ \E i \in DOMAIN claims :
          /\ claims[i].status = "confirmed"
          /\ op.h = claims[i].burnBlockHeight + requiredConfirmations

\* ---------------------------------------------------------------------
\* C34
\* ---------------------------------------------------------------------
\* C34: a successful broadcast replaces pendingUtxos by the new outputs of
\* its receipt, a claim that fails leaves pendingUtxos as it was, and a
\* broadcast is given a utxos list only when that list is not empty.
C34_UtxoChaining ==
    [][op'.name = "attestClaim" =>
          /\ op'.outcome = "attested" => pendingUtxos' \in {op'.txid, EmptyUtxos}
          /\ op'.outcome # "attested" => pendingUtxos' = pendingUtxos
          /\ op'.outcome \in {"attested", "send"} =>
                paramsUtxos(pendingUtxos) # EmptyUtxos
      ]_vars

\* ---------------------------------------------------------------------
\* C35
\* ---------------------------------------------------------------------
\* C35: with the payloads numbered from 0, the body is the concatenation of
\* the payloads after the first empty payload at an even index; the fields
\* are the pairs (even index, next index) before it whose tag payload has
\* one byte and whose value exists; pointer is the value of the first field
\* with tag 2; the envelope is returned exactly when it has a body or a
\* content-type field with a non-empty value.
C35_PayloadPairing ==
    (op.name = "parseInscription" /\ op.id.kind = "payloads") =>
        LET ps == op.id.payloads
            Separators == {k \in 0 .. Len(ps) - 1 : k % 2 = 0 /\ ps[k + 1] = <<>>}
            end == IF Separators = {} THEN Len(ps) ELSE Min(Separators)
            body == IF Separators = {} THEN <<>>
                    ELSE concat(SubSeq(ps, end + 2, Len(ps)))
            Fields(tag) == {k \in 0 .. end - 1 :
                               k % 2 = 0 /\ ps[k + 1] = <<tag>> /\ k + 1 < Len(ps)}
            valid == body # <<>> \/ \E k \in Fields(Tag.ContentType) : ps[k + 2] # <<>>
        IN /\ (op.ret # None) <=> valid
           /\ op.ret # None =>
                 /\ op.ret[1].content = body
                 /\ op.ret[1].pointer =
                        (IF Fields(Tag.Pointer) = {} THEN None
                         ELSE Some(ps[Min(Fields(Tag.Pointer)) + 2]))
                 /\ op.ret[1].metadata = None

\* A multi-byte tag and an empty value before the separator, a body of two
\* chunks after it.
C35_Witness ==
    /\ op.name = "parseInscription"
    /\ op.id.kind = "payloads"
    /\ op.id.payloads = <<(<<1, 2>>), <<>>, <<>>, <<97>>>>
    /\ op.ret # None
    /\ op.ret[1].content = <<97>>

\* ---------------------------------------------------------------------
\* C36
\* ---------------------------------------------------------------------
\* C36: stored inscriptions of one block height carry one block hash, and
\* when processNextBlock has completed a block, the rows of its height carry
\* the hash of that block.
C36_OneHashPerHeight ==
    /\ \A r1 \in inscriptions : \A r2 \in inscriptions :
          r1.blockHeight = r2.blockHeight => r1.blockHash = r2.blockHash
    /\ (op.name = "processNextBlock" /\ op.outcome = "advanced") =>
          \A r \in inscriptions : r.blockHeight = op.h => r.blockHash = lastBlockHash

\* ---------------------------------------------------------------------
\* C37
\* ---------------------------------------------------------------------
\* C37: while worker cycles keep running, a claim that is confirmed is
\* eventually in the batch of a cycle or attested or failed.
C37_NoStarvation ==
    \A id \in 1 .. MaxBatchQueue :
        (HasRow(claims, id) /\ RowOf(claims, id).status = "confirmed")
            ~> \/ \E k \in DOMAIN wCycle : wCycle[k] = id
               \/ HasRow(claims, id) /\ RowOf(claims, id).status \in {"attested", "failed"}

\* ---------------------------------------------------------------------
\* C38
\* ---------------------------------------------------------------------
\* C38: a write of retryFailedClaims changes only a claim that is failed
\* when the write happens; a claim that is attested by then stays attested.
C38_RetryMovesOnlyFailed ==
    [][ (op'.name = "retryFailedClaims" /\ op'.outcome = "write") =>
          /\ DOMAIN claims' = DOMAIN claims
          /\ \A i \in DOMAIN claims :
                claims'[i] # claims[i] => claims[i].status = "failed"
      ]_vars

\* ---------------------------------------------------------------------
\* C39
\* ---------------------------------------------------------------------
\* C39: no inscription id has a broadcast with a receipt from each of two
\* overlapping invocations of processConfirmedClaims.
C39_NoClaimBroadcastByBoth ==
    \A id \in DOMAIN broadcasts :
        ~(second.sent[id] >= 1 /\ broadcasts[id] - second.sent[id] >= 1)

====
